---- MODULE Spec2Model ----
(***************************************************************************)
(* InsightAgent engine: value coercion, column mapper, the four category   *)
(* analyzers, the aggregator, the status decider, and the engine / HTTP    *)
(* wrapper that sequence them.                                             *)
(*                                                                         *)
(* Numbers.  Python floats are modelled in fixed point: the integer n      *)
(* stands for the number n / Scale, so 2.0001 is 20001.  Text is a TLA+    *)
(* string; a Python dict is a sequence of <<key, value>> pairs with        *)
(* distinct keys, in insertion order.  A stored value is a tagged record   *)
(* (see Value kinds below).                                                *)
(***************************************************************************)
EXTENDS Integers, Sequences, FiniteSets, TLC

VARIABLES
    request,              \* AnalysisRequest: [data, column_mapping]
    column_mapping,       \* AnalysisState["column_mapping"] / engine local
    normalized_data,      \* AnalysisState["normalized_data"]
    roas_insights,        \* AnalysisState["roas_insights"]
    ctr_insights,         \* AnalysisState["ctr_insights"]
    conversion_insights,  \* AnalysisState["conversion_insights"]
    frequency_insights,   \* AnalysisState["frequency_insights"]
    all_insights,         \* AnalysisState["all_insights"]
    ad_insights,          \* AnalysisState["ad_insights"]
    metrics_overview,     \* AnalysisState["metrics_overview"]
    summary,              \* AnalysisState["summary"]
    llm_calls,            \* the calls made to the external collaborators, in order
    response,             \* what InsightAgentEngine.analyze gave its caller
    http,                 \* what the /analyze endpoint answered
    pc,                   \* the step the run is at
    call                  \* a single library call under test: arguments and result

vars == <<request, column_mapping, normalized_data, roas_insights, ctr_insights,
          conversion_insights, frequency_insights, all_insights, ad_insights,
          metrics_overview, summary, llm_calls, response, http, pc, call>>

(***************************************************************************)
(* Bounds of the model.                                                    *)
(***************************************************************************)
MaxStrLen == 3      \* longest text drawn over CoerceChars
MaxRows == 2        \* most records in one request / one analyzer call
MaxInsights == 3    \* longest finding list handed to decide_status on its own
MaxFindings == 6    \* longest finding list in the runs on recommendations

Scale == 10 * 1000

\* whole + tenths/10, in fixed point: F(2, 5) is 2.5
F(whole, tenths) == whole * Scale + tenths * (Scale \div 10)

(***************************************************************************)
(* Text.                                                                   *)
(***************************************************************************)
Digits == {"0", "1", "2", "3", "4", "5", "6", "7", "8", "9"}

DigitVal(c) ==
    CASE c = "0" -> 0 [] c = "1" -> 1 [] c = "2" -> 2 [] c = "3" -> 3
      [] c = "4" -> 4 [] c = "5" -> 5 [] c = "6" -> 6 [] c = "7" -> 7
      [] c = "8" -> 8 [] c = "9" -> 9

At(s, i) == SubSeq(s, i, i)

\* str.replace(c, ""): every occurrence of the one-character text c removed
RECURSIVE RemoveChar(_, _)
RemoveChar(s, c) ==
    IF s = "" THEN ""
    ELSE IF Head(s) = c THEN RemoveChar(Tail(s), c)
    ELSE Head(s) \o RemoveChar(Tail(s), c)

Whitespace == {" "}

RECURSIVE LStrip(_)
LStrip(s) ==
    IF s # "" /\ Head(s) \in Whitespace THEN LStrip(Tail(s)) ELSE s

RECURSIVE RStrip(_)
RStrip(s) ==
    IF s # "" /\ At(s, Len(s)) \in Whitespace
    THEN RStrip(SubSeq(s, 1, Len(s) - 1)) ELSE s

\* str.strip()
Strip(s) == RStrip(LStrip(s))

AllDigits(s) == \A i \in 1..Len(s) : At(s, i) \in Digits

RECURSIVE IntOf(_)
IntOf(s) ==
    IF s = "" THEN 0
    ELSE 10 * IntOf(SubSeq(s, 1, Len(s) - 1)) + DigitVal(At(s, Len(s)))

\* the fraction digits f as a fixed-point fraction (four digits are kept)
FracOf(f) ==
    LET d(i) == IF i <= Len(f) THEN DigitVal(At(f, i)) ELSE 0
    IN  d(1) * 1000 + d(2) * 100 + d(3) * 10 + d(4)

DotAt(s) ==
    IF \E i \in 1..Len(s) : At(s, i) = "."
    THEN CHOOSE i \in 1..Len(s) : At(s, i) = "." /\ \A j \in 1..(i - 1) : At(s, j) # "."
    ELSE 0

\* float(text) on stripped text: [sign] digits [. [digits]] | [sign] . digits.
\* The exponent, underscore, "inf" and "nan" forms use characters that the
\* texts of this model never hold.
ParseFloat(s) ==
    LET signed == s # "" /\ Head(s) \in {"+", "-"}
        neg    == s # "" /\ Head(s) = "-"
        body   == IF signed THEN Tail(s) ELSE s
        dot    == DotAt(body)
        ip     == IF dot = 0 THEN body ELSE SubSeq(body, 1, dot - 1)
        fp     == IF dot = 0 THEN "" ELSE SubSeq(body, dot + 1, Len(body))
        ok     == AllDigits(ip) /\ AllDigits(fp) /\ (ip # "" \/ fp # "")
        mag    == IntOf(ip) * Scale + FracOf(fp)
    IN  IF ok THEN [ok |-> TRUE, v |-> IF neg THEN 0 - mag ELSE mag]
        ELSE [ok |-> FALSE, v |-> 0]

(***************************************************************************)
(* Value kinds: what a JSON record may store under a key.                  *)
(*   [t |-> "str", s]    text                                              *)
(*   [t |-> "int", v]    an int that float() can convert; v is the int     *)
(*   [t |-> "bigint"]    an int beyond the float range (JSON allows it)    *)
(*   [t |-> "float", v]  a float, v in fixed point                         *)
(*   [t |-> "bool", b]   True / False                                      *)
(*   [t |-> "none"]      None                                              *)
(*   [t |-> "list", n]   a JSON array of n elements                        *)
(*   [t |-> "dict", n]   a JSON object of n members                        *)
(***************************************************************************)
Str(s)   == [t |-> "str", s |-> s]
Int_(v)  == [t |-> "int", v |-> v]
Flt(v)   == [t |-> "float", v |-> v]
None     == [t |-> "none"]
Bool(b)  == [t |-> "bool", b |-> b]
BigInt   == [t |-> "bigint"]
List(n)  == [t |-> "list", n |-> n]
Dict(n)  == [t |-> "dict", n |-> n]

(***************************************************************************)
(* dict: a sequence of <<key, value>> pairs.                               *)
(***************************************************************************)
DictKeys(d) == {d[i][1] : i \in 1..Len(d)}

DictHas(d, k) == \E i \in 1..Len(d) : d[i][1] = k

DictIndex(d, k) == CHOOSE i \in 1..Len(d) : d[i][1] = k

\* d.get(k, default)
DictGet(d, k, default) == IF DictHas(d, k) THEN d[DictIndex(d, k)][2] ELSE default

\* d[k] = v : an existing key keeps its place, a new key goes last
DictSet(d, k, v) ==
    IF DictHas(d, k)
    THEN [i \in 1..Len(d) |-> IF d[i][1] = k THEN <<k, v>> ELSE d[i]]
    ELSE Append(d, <<k, v>>)

(***************************************************************************)
(* _get_value(row, key, default).  The result is [raised, v]: raised when  *)
(* the call ends in an exception, else v is the float returned.            *)
(***************************************************************************)
Returned(v) == [raised |-> FALSE, v |-> v]
Raised      == [raised |-> TRUE, v |-> 0]

\* bool(value) for a value that is not text
Truthy(value) ==
    CASE value.t = "none"   -> FALSE
      [] value.t = "bool"   -> value.b
      [] value.t = "int"    -> value.v # 0
      [] value.t = "bigint" -> TRUE
      [] value.t = "float"  -> value.v # 0
      [] value.t = "list"   -> value.n > 0
      [] value.t = "dict"   -> value.n > 0

\* float(value) for a value that is not text
FloatOf(value) ==
    CASE value.t = "bool"   -> Returned(IF value.b THEN Scale ELSE 0)
      [] value.t = "int"    -> Returned(value.v * Scale)
      [] value.t = "float"  -> Returned(value.v)
      [] value.t = "bigint" -> Raised     \* OverflowError
      [] value.t = "list"   -> Raised     \* TypeError
      [] value.t = "dict"   -> Raised     \* TypeError
      [] value.t = "none"   -> Raised     \* TypeError

GetValue(row, key, default) ==
    LET value == DictGet(row, key, Flt(default))
    IN  IF value.t = "str"
        THEN LET cleaned == Strip(RemoveChar(RemoveChar(value.s, "%"), ","))
                 parsed  == ParseFloat(cleaned)
             IN  IF parsed.ok THEN Returned(parsed.v) ELSE Returned(default)
        ELSE IF Truthy(value) THEN FloatOf(value) ELSE Returned(default)

(***************************************************************************)
(* ColumnMapper.                                                           *)
(***************************************************************************)
UpperAlpha == "ABCDEFGHIJKLMNOPQRSTUVWXYZ"
LowerAlpha == "abcdefghijklmnopqrstuvwxyz"

LowerChar(c) ==
    IF \E i \in 1..Len(UpperAlpha) : At(UpperAlpha, i) = c
    THEN At(LowerAlpha, CHOOSE i \in 1..Len(UpperAlpha) : At(UpperAlpha, i) = c)
    ELSE c

\* str.lower()
RECURSIVE Lower(_)
Lower(s) == IF s = "" THEN "" ELSE LowerChar(Head(s)) \o Lower(Tail(s))

\* Python's  sub in s  on text
Contains(sub, s) ==
    \E i \in 0..(Len(s) - Len(sub)) : SubSeq(s, i + 1, i + Len(sub)) = sub

\* the class attribute, in its (insertion) iteration order
STANDARD_COLUMNS == <<
    <<"campaign_name",   <<"campaign name", "campaign", "campaign_name">> >>,
    <<"ad_set_name",     <<"ad set name", "ad set", "adset", "ad_set_name">> >>,
    <<"ad_name",         <<"ad name", "ad", "ad_name", "creative name">> >>,
    <<"ad_id",           <<"ad id", "ad_id", "adid", "creative id">> >>,
    <<"spend",           <<"spend", "cost", "amount spent", "budget spent">> >>,
    <<"impressions",     <<"impressions", "impr", "views">> >>,
    <<"clicks",          <<"clicks", "link clicks", "click">> >>,
    <<"ctr",             <<"ctr", "ctr %", "click through rate", "clickthrough rate">> >>,
    <<"frequency",       <<"frequency", "freq", "avg frequency">> >>,
    <<"roas",            <<"roas", "return on ad spend", "roi">> >>,
    <<"purchases",       <<"purchases", "conversions", "sales", "purchase">> >>,
    <<"purchase_value",  <<"purchase value", "revenue", "conversion value", "sales value">> >>,
    <<"add_to_cart",     <<"adds to cart", "add to cart", "atc", "cart adds">> >>,
    <<"atc_to_purchase", <<"atc→purchase %", "atc to purchase", "cart to purchase", "conversion rate">> >>,
    <<"ctr_7d",          <<"ctr 7d %", "ctr 7d", "ctr last 7 days">> >>,
    <<"ctr_prev_7d",     <<"ctr prev7 %", "ctr prev 7d", "ctr previous 7 days">> >>,
    <<"ctr_drop",        <<"ctr drop vs prev7 %", "ctr drop", "ctr decline">> >>,
    <<"status",          <<"status", "state", "ad status">> >> >>

StandardNames == {STANDARD_COLUMNS[i][1] : i \in 1..Len(STANDARD_COLUMNS)}

Variations(i) == STANDARD_COLUMNS[i][2]

SeqElems(q) == {q[i] : i \in 1..Len(q)}

\* one turn of the loop of fuzzy_match: does the entry i return its name?
FuzzyHit(i, column_lower) ==
    \/ column_lower \in SeqElems(Variations(i))
    \/ \E v \in 1..Len(Variations(i)) :
          \/ Contains(Variations(i)[v], column_lower)
          \/ Contains(column_lower, Variations(i)[v])

\* fuzzy_match(column): [found, standard]; found = FALSE is the None result
fuzzy_match(column) ==
    LET column_lower == Strip(Lower(column))
        hits == {i \in 1..Len(STANDARD_COLUMNS) : FuzzyHit(i, column_lower)}
    IN  IF hits = {} THEN [found |-> FALSE, standard |-> ""]
        ELSE [found |-> TRUE,
              standard |-> STANDARD_COLUMNS[CHOOSE i \in hits : \A j \in hits : i <= j][1]]

\* first pass of map_columns_with_llm: [mapping, unmapped]
RECURSIVE FuzzyPass(_, _, _)
FuzzyPass(columns, mapping, unmapped) ==
    IF columns = <<>> THEN [mapping |-> mapping, unmapped |-> unmapped]
    ELSE LET col == Head(columns)
             matched == fuzzy_match(col)
         IN  IF matched.found
             THEN FuzzyPass(Tail(columns), DictSet(mapping, col, Str(matched.standard)), unmapped)
             ELSE FuzzyPass(Tail(columns), mapping, Append(unmapped, col))

\* the except branch: every unmapped column becomes "unknown"
RECURSIVE MarkUnknown(_, _)
MarkUnknown(mapping, unmapped) ==
    IF unmapped = <<>> THEN mapping
    ELSE MarkUnknown(DictSet(mapping, Head(unmapped), Str("unknown")), Tail(unmapped))

(***************************************************************************)
(* The collaborator's answer to the column-mapping prompt:                 *)
(*   [kind |-> "raise"]             the call raised                        *)
(*   [kind |-> "text"]              content that json.loads rejects        *)
(*   [kind |-> "json", value |-> v] content that parses to v:              *)
(*       [j |-> "scalar"]           null, a number, true/false             *)
(*       [j |-> "array", items]     items are [pair, k, v]; pair = FALSE   *)
(*                                  is an element that is no 2-sequence    *)
(*       [j |-> "object", members]  a dict of column -> value              *)
(***************************************************************************)
\* dict.update(items of a JSON array): [raised, mapping]
RECURSIVE UpdateFromArray(_, _)
UpdateFromArray(mapping, items) ==
    IF items = <<>> THEN [raised |-> FALSE, mapping |-> mapping]
    ELSE IF ~Head(items).pair THEN [raised |-> TRUE, mapping |-> mapping]
    ELSE UpdateFromArray(DictSet(mapping, Head(items).k, Head(items).v), Tail(items))

\* dict.update(a dict)
RECURSIVE UpdateFromObject(_, _)
UpdateFromObject(mapping, members) ==
    IF members = <<>> THEN mapping
    ELSE UpdateFromObject(DictSet(mapping, Head(members)[1], Head(members)[2]), Tail(members))

\* second pass of map_columns_with_llm, given the collaborator's reply
ApplyReply(mapping, unmapped, reply) ==
    IF reply.kind \in {"raise", "text"} THEN MarkUnknown(mapping, unmapped)
    ELSE CASE reply.value.j = "scalar" -> MarkUnknown(mapping, unmapped)
           [] reply.value.j = "array"  ->
                LET u == UpdateFromArray(mapping, reply.value.items)
                IN  IF u.raised THEN MarkUnknown(u.mapping, unmapped) ELSE u.mapping
           [] reply.value.j = "object" -> UpdateFromObject(mapping, reply.value.members)

\* reverse_map of normalize_data
RECURSIVE ReverseMap(_)
ReverseMap(mapping) ==
    IF mapping = <<>> THEN <<>>
    ELSE LET orig == Head(mapping)[1]
             std  == Head(mapping)[2]
             rest == ReverseMap(Tail(mapping))
         IN  IF std = Str("unknown") THEN rest ELSE <<Head(mapping)>> \o rest

\* one row of normalize_data: [raised, row]; a key that is a list is unhashable
RECURSIVE NormalizeRow(_, _, _)
NormalizeRow(row, reverse_map, new_row) ==
    IF row = <<>> THEN [raised |-> FALSE, row |-> new_row]
    ELSE LET orig_col == Head(row)[1]
             standard_col == DictGet(reverse_map, orig_col, Str(orig_col))
         IN  IF standard_col.t # "str" THEN [raised |-> TRUE, row |-> new_row]
             ELSE NormalizeRow(Tail(row), reverse_map,
                               DictSet(new_row, standard_col.s, Head(row)[2]))

RECURSIVE NormalizeRows(_, _)
NormalizeRows(data, reverse_map) ==
    IF data = <<>> THEN [raised |-> FALSE, rows |-> <<>>]
    ELSE LET first == NormalizeRow(Head(data), reverse_map, <<>>)
             rest  == NormalizeRows(Tail(data), reverse_map)
         IN  IF first.raised \/ rest.raised THEN [raised |-> TRUE, rows |-> <<>>]
             ELSE [raised |-> FALSE, rows |-> <<first.row>> \o rest.rows]

\* normalize_data(data, column_mapping), column_mapping given
normalize_data(data, mapping) ==
    IF data = <<>> THEN [raised |-> FALSE, rows |-> <<>>]
    ELSE NormalizeRows(data, ReverseMap(mapping))

(***************************************************************************)
(* Text of a value and of a number.                                        *)
(***************************************************************************)
DigitChars == "0123456789"

RECURSIVE NatStr(_)
NatStr(n) ==
    IF n < 10 THEN At(DigitChars, n + 1)
    ELSE NatStr(n \div 10) \o At(DigitChars, (n % 10) + 1)

IntStr(n) == IF n < 0 THEN "-" \o NatStr(0 - n) ELSE NatStr(n)

RECURSIVE TrimZeros(_)
TrimZeros(s) ==
    IF Len(s) > 1 /\ At(s, Len(s)) = "0" THEN TrimZeros(SubSeq(s, 1, Len(s) - 1)) ELSE s

\* repr of a float held in fixed point: 15000 is "1.5", 20000 is "2.0"
FloatStr(v) ==
    LET mag  == IF v < 0 THEN 0 - v ELSE v
        frac == mag % Scale
        pad  == SubSeq("000", 1, 4 - Len(NatStr(frac))) \o NatStr(frac)
    IN  (IF v < 0 THEN "-" ELSE "") \o NatStr(mag \div Scale) \o "." \o TrimZeros(pad)

\* str(value); the text of a list or dict stands for whatever its elements print
StrOf(value) ==
    CASE value.t = "str"    -> value.s
      [] value.t = "none"   -> "None"
      [] value.t = "bool"   -> IF value.b THEN "True" ELSE "False"
      [] value.t = "int"    -> IntStr(value.v)
      [] value.t = "float"  -> FloatStr(value.v)
      [] value.t = "bigint" -> "1e400"
      [] value.t = "list"   -> IF value.n = 0 THEN "[]" ELSE "[..]"
      [] value.t = "dict"   -> IF value.n = 0 THEN "{}" ELSE "{..}"

\* str(row.get("ad_id", "unknown"))
AdIdOf(row) == StrOf(DictGet(row, "ad_id", Str("unknown")))

\* str(row.get("ad_name", "unknown"))
AdNameOf(row) == StrOf(DictGet(row, "ad_name", Str("unknown")))

\* v rounded to a multiple of unit, in units: f"{x:.2f}" is RoundTo(x, Scale \div 100)
\* hundredths.  An exact tie goes to the even neighbour.
RoundTo(v, unit) ==
    LET q == v \div unit
        r == v % unit
    IN  IF 2 * r < unit THEN q
        ELSE IF 2 * r > unit THEN q + 1
        ELSE IF q % 2 = 0 THEN q ELSE q + 1

Fmt2(v) == RoundTo(v, Scale \div 100)
Fmt1(v) == RoundTo(v, Scale \div 10)

\* int(x): truncation toward zero
Trunc(v) == IF v < 0 THEN 0 - ((0 - v) \div Scale) ELSE v \div Scale

(***************************************************************************)
(* InsightRecommendation.  condition is the f-string as its pieces: texts  *)
(* and formatted numbers in turn.                                          *)
(***************************************************************************)
\* Insight whose high-priority findings list the id twice
InsightAdRepeated(category, condition, recommendation, priority, ad_id) ==
    [category |-> category, condition |-> condition, recommendation |-> recommendation,
     priority |-> priority,
     affected_ads |-> IF priority = "high" THEN <<ad_id, ad_id>> ELSE <<ad_id>>]

Insight(category, condition, recommendation, priority, ad_id) ==
    [category |-> category, condition |-> condition, recommendation |-> recommendation,
     priority |-> priority, affected_ads |-> <<ad_id>>]

NoInsight == [raised |-> FALSE, out |-> <<>>]
Emit(i)   == [raised |-> FALSE, out |-> <<i>>]
Failed    == [raised |-> TRUE, out |-> <<>>]

\* ROASRules whose second row asks for a spend above 100
ROASRulesHigherSpend(roas, spend, ad_id) ==
    IF F(1, 0) <= roas /\ roas <= F(2, 0)
    THEN Emit(Insight("roas", <<"ROAS ", Fmt2(roas), " (1-2 range)">>,
             "Test 2-3 new hooks/thumbnails; rotate in new ad creative; cap frequency to avoid fatigue",
             "high", ad_id))
    ELSE IF roas < F(1, 0) /\ spend > F(100, 0)
    THEN Emit(Insight("roas", <<"ROAS ", Fmt2(roas), " (unprofitable)">>,
             "Pause immediately or reduce budget by 75%; audit targeting and creative quality",
             "high", ad_id))
    ELSE IF roas > F(3, 0)
    THEN Emit(Insight("roas", <<"ROAS ", Fmt2(roas), " (high performance)">>,
             "Scale budget by 20-30%; create lookalike audiences; duplicate winning creative",
             "medium", ad_id))
    ELSE NoInsight

\* ROASRules with the upper end of the first band left out (roas < 2.0)
ROASRulesOpenBand(roas, spend, ad_id) ==
    IF F(1, 0) <= roas /\ roas < F(2, 0)
    THEN Emit(Insight("roas", <<"ROAS ", Fmt2(roas), " (1-2 range)">>,
             "Test 2-3 new hooks/thumbnails; rotate in new ad creative; cap frequency to avoid fatigue",
             "high", ad_id))
    ELSE IF roas < F(1, 0) /\ spend > F(50, 0)
    THEN Emit(Insight("roas", <<"ROAS ", Fmt2(roas), " (unprofitable)">>,
             "Pause immediately or reduce budget by 75%; audit targeting and creative quality",
             "high", ad_id))
    ELSE IF roas > F(3, 0)
    THEN Emit(Insight("roas", <<"ROAS ", Fmt2(roas), " (high performance)">>,
             "Scale budget by 20-30%; create lookalike audiences; duplicate winning creative",
             "medium", ad_id))
    ELSE NoInsight

\* the if / elif chain of ROASAgent.analyze on the coerced numbers
ROASRules(roas, spend, ad_id) ==
    IF F(1, 0) <= roas /\ roas <= F(2, 0)
    THEN Emit(Insight("roas", <<"ROAS ", Fmt2(roas), " (1-2 range)">>,
             "Test 2-3 new hooks/thumbnails; rotate in new ad creative; cap frequency to avoid fatigue",
             "high", ad_id))
    ELSE IF roas < F(1, 0) /\ spend > F(50, 0)
    THEN Emit(Insight("roas", <<"ROAS ", Fmt2(roas), " (unprofitable)">>,
             "Pause immediately or reduce budget by 75%; audit targeting and creative quality",
             "high", ad_id))
    ELSE IF roas > F(3, 0)
    THEN Emit(Insight("roas", <<"ROAS ", Fmt2(roas), " (high performance)">>,
             "Scale budget by 20-30%; create lookalike audiences; duplicate winning creative",
             "medium", ad_id))
    ELSE NoInsight

ROASCoerced(roas, spend, frequency, ad_id) ==
    IF roas.raised \/ spend.raised \/ frequency.raised THEN Failed
    ELSE ROASRules(roas.v, spend.v, ad_id)

\* the body of the loop of ROASAgent.analyze
ROASRow(row) ==
    ROASCoerced(GetValue(row, "roas", 0), GetValue(row, "spend", 0),
                GetValue(row, "frequency", 0), AdIdOf(row))

\* CTRRules whose second row also takes ctr = 1.0 (ctr <= 1.0)
CTRRulesLowIncluded(ctr, ctr_7d, ctr_prev_7d, ctr_drop, impressions, ad_id) ==
    IF \/ ctr_drop > F(30, 0)
       \/ (ctr_prev_7d > 0 /\ 10 * ctr_7d < 7 * ctr_prev_7d)
    THEN Emit(Insight("ctr", <<"CTR dropped ", Fmt1(ctr_drop), "% vs previous period">>,
             "Creative fatigue detected; rotate in fresh ad creative; test new angles/hooks",
             "high", ad_id))
    ELSE IF ctr <= F(1, 0) /\ impressions > F(1000, 0)
    THEN Emit(Insight("ctr", <<"Low CTR ", Fmt2(ctr), "% with ", Trunc(impressions),
                               " impressions">>,
             "Poor creative engagement; test stronger hooks, better visuals, or clearer CTA",
             "high", ad_id))
    ELSE IF ctr > F(3, 0)
    THEN Emit(Insight("ctr", <<"Strong CTR ", Fmt2(ctr), "%">>,
             "High engagement; scale impressions, create similar variants, analyze winning elements",
             "medium", ad_id))
    ELSE NoInsight

\* the if / elif chain of CTRAgent.analyze on the coerced numbers
CTRRules(ctr, ctr_7d, ctr_prev_7d, ctr_drop, impressions, ad_id) ==
    IF \/ ctr_drop > F(30, 0)
       \/ (ctr_prev_7d > 0 /\ 10 * ctr_7d < 7 * ctr_prev_7d)
    THEN Emit(Insight("ctr", <<"CTR dropped ", Fmt1(ctr_drop), "% vs previous period">>,
             "Creative fatigue detected; rotate in fresh ad creative; test new angles/hooks",
             "high", ad_id))
    ELSE IF ctr < F(1, 0) /\ impressions > F(1000, 0)
    THEN Emit(Insight("ctr", <<"Low CTR ", Fmt2(ctr), "% with ", Trunc(impressions),
                               " impressions">>,
             "Poor creative engagement; test stronger hooks, better visuals, or clearer CTA",
             "high", ad_id))
    ELSE IF ctr > F(3, 0)
    THEN Emit(Insight("ctr", <<"Strong CTR ", Fmt2(ctr), "%">>,
             "High engagement; scale impressions, create similar variants, analyze winning elements",
             "medium", ad_id))
    ELSE NoInsight

CTRCoerced(ctr, ctr_7d, ctr_prev_7d, ctr_drop, impressions, ad_id) ==
    IF ctr.raised \/ ctr_7d.raised \/ ctr_prev_7d.raised \/ ctr_drop.raised
       \/ impressions.raised THEN Failed
    ELSE CTRRules(ctr.v, ctr_7d.v, ctr_prev_7d.v, ctr_drop.v, impressions.v, ad_id)

\* the body of the loop of CTRAgent.analyze
CTRRow(row) ==
    CTRCoerced(GetValue(row, "ctr", 0), GetValue(row, "ctr_7d", 0),
               GetValue(row, "ctr_prev_7d", 0), GetValue(row, "ctr_drop", 0),
               GetValue(row, "impressions", 0), AdIdOf(row))

\* ConversionRules whose second row does not fire without cart adds
\* (0 < add_to_cart < 5)
ConversionRulesSomeCart(atc_to_purchase, ctr, add_to_cart, ad_id) ==
    IF ctr > F(1, 5) /\ atc_to_purchase < F(20, 0) /\ add_to_cart > F(10, 0)
    THEN Emit(Insight("conversion",
             <<"CTR ", Fmt2(ctr), "% healthy but ATC→Purchase ", Fmt1(atc_to_purchase),
               "% < 20%">>,
             "Audit landing page and checkout flow; check for friction, page speed, trust signals; review pricing and shipping",
             "high", ad_id))
    ELSE IF 0 < add_to_cart /\ add_to_cart < F(5, 0) /\ ctr > F(1, 0)
    THEN Emit(Insight("conversion",
             <<"Low cart adds (", Trunc(add_to_cart), ") despite clicks">>,
             "Landing page issue; ensure message match, improve product presentation, add urgency/scarcity",
             "high", ad_id))
    ELSE IF atc_to_purchase > F(30, 0)
    THEN Emit(Insight("conversion",
             <<"Strong ATC→Purchase rate ", Fmt1(atc_to_purchase), "%">>,
             "Excellent conversion funnel; scale traffic to this flow, document winning elements",
             "low", ad_id))
    ELSE NoInsight

\* ConversionRules whose second row asks for few cart adds or clicks, not both
ConversionRulesEitherCart(atc_to_purchase, ctr, add_to_cart, ad_id) ==
    IF ctr > F(1, 5) /\ atc_to_purchase < F(20, 0) /\ add_to_cart > F(10, 0)
    THEN Emit(Insight("conversion",
             <<"CTR ", Fmt2(ctr), "% healthy but ATC→Purchase ", Fmt1(atc_to_purchase),
               "% < 20%">>,
             "Audit landing page and checkout flow; check for friction, page speed, trust signals; review pricing and shipping",
             "high", ad_id))
    ELSE IF add_to_cart < F(5, 0) \/ ctr > F(1, 0)
    THEN Emit(Insight("conversion",
             <<"Low cart adds (", Trunc(add_to_cart), ") despite clicks">>,
             "Landing page issue; ensure message match, improve product presentation, add urgency/scarcity",
             "high", ad_id))
    ELSE IF atc_to_purchase > F(30, 0)
    THEN Emit(Insight("conversion",
             <<"Strong ATC→Purchase rate ", Fmt1(atc_to_purchase), "%">>,
             "Excellent conversion funnel; scale traffic to this flow, document winning elements",
             "low", ad_id))
    ELSE NoInsight

\* the if / elif chain of ConversionAgent.analyze on the coerced numbers
ConversionRules(atc_to_purchase, ctr, add_to_cart, ad_id) ==
    IF ctr > F(1, 5) /\ atc_to_purchase < F(20, 0) /\ add_to_cart > F(10, 0)
    THEN Emit(Insight("conversion",
             <<"CTR ", Fmt2(ctr), "% healthy but ATC→Purchase ", Fmt1(atc_to_purchase),
               "% < 20%">>,
             "Audit landing page and checkout flow; check for friction, page speed, trust signals; review pricing and shipping",
             "high", ad_id))
    ELSE IF add_to_cart < F(5, 0) /\ ctr > F(1, 0)
    THEN Emit(Insight("conversion",
             <<"Low cart adds (", Trunc(add_to_cart), ") despite clicks">>,
             "Landing page issue; ensure message match, improve product presentation, add urgency/scarcity",
             "high", ad_id))
    ELSE IF atc_to_purchase > F(30, 0)
    THEN Emit(Insight("conversion",
             <<"Strong ATC→Purchase rate ", Fmt1(atc_to_purchase), "%">>,
             "Excellent conversion funnel; scale traffic to this flow, document winning elements",
             "low", ad_id))
    ELSE NoInsight

ConversionCoerced(atc_to_purchase, ctr, add_to_cart, purchases, ad_id) ==
    IF atc_to_purchase.raised \/ ctr.raised \/ add_to_cart.raised \/ purchases.raised
    THEN Failed
    ELSE ConversionRules(atc_to_purchase.v, ctr.v, add_to_cart.v, ad_id)

\* the body of the loop of ConversionAgent.analyze
ConversionRow(row) ==
    ConversionCoerced(GetValue(row, "atc_to_purchase", 0), GetValue(row, "ctr", 0),
                      GetValue(row, "add_to_cart", 0), GetValue(row, "purchases", 0),
                      AdIdOf(row))

\* FrequencyRules whose first row also takes frequency = 3.5 (frequency >= 3.5)
FrequencyRulesFromThreeFive(frequency, ctr, ctr_drop, ad_id) ==
    IF frequency >= F(3, 5) /\ (ctr_drop > F(20, 0) \/ ctr < F(1, 0))
    THEN Emit(Insight("frequency",
             <<"Frequency ", Fmt2(frequency), " with performance decline">>,
             "Ad fatigue detected; cap frequency at 3, expand audience, or rotate creative",
             "high", ad_id))
    ELSE IF frequency > F(5, 0)
    THEN Emit(Insight("frequency", <<"Very high frequency ", Fmt2(frequency)>>,
             "Audience saturation; expand targeting, add exclusions, or pause for creative refresh",
             "high", ad_id))
    ELSE NoInsight

\* the if / elif chain of FrequencyAgent.analyze on the coerced numbers
FrequencyRules(frequency, ctr, ctr_drop, ad_id) ==
    IF frequency > F(3, 5) /\ (ctr_drop > F(20, 0) \/ ctr < F(1, 0))
    THEN Emit(Insight("frequency",
             <<"Frequency ", Fmt2(frequency), " with performance decline">>,
             "Ad fatigue detected; cap frequency at 3, expand audience, or rotate creative",
             "high", ad_id))
    ELSE IF frequency > F(5, 0)
    THEN Emit(Insight("frequency", <<"Very high frequency ", Fmt2(frequency)>>,
             "Audience saturation; expand targeting, add exclusions, or pause for creative refresh",
             "high", ad_id))
    ELSE NoInsight

FrequencyCoerced(frequency, ctr, ctr_drop, ad_id) ==
    IF frequency.raised \/ ctr.raised \/ ctr_drop.raised THEN Failed
    ELSE FrequencyRules(frequency.v, ctr.v, ctr_drop.v, ad_id)

\* the body of the loop of FrequencyAgent.analyze
FrequencyRow(row) ==
    FrequencyCoerced(GetValue(row, "frequency", 0), GetValue(row, "ctr", 0),
                     GetValue(row, "ctr_drop", 0), AdIdOf(row))

RECURSIVE Flatten(_)
Flatten(qs) == IF qs = <<>> THEN <<>> ELSE Head(qs) \o Flatten(Tail(qs))

\* for row in data: ...  over the rows' results; an exception ends the call
AnalyzeRows(each) ==
    IF \E i \in 1..Len(each) : each[i].raised THEN Failed
    ELSE [raised |-> FALSE, out |-> Flatten([i \in 1..Len(each) |-> each[i].out])]

ROASAgent_analyze(data) == AnalyzeRows([i \in 1..Len(data) |-> ROASRow(data[i])])

CTRAgent_analyze(data) == AnalyzeRows([i \in 1..Len(data) |-> CTRRow(data[i])])

ConversionAgent_analyze(data) == AnalyzeRows([i \in 1..Len(data) |-> ConversionRow(data[i])])

FrequencyAgent_analyze(data) == AnalyzeRows([i \in 1..Len(data) |-> FrequencyRow(data[i])])

(***************************************************************************)
(* InsightGraph._aggregate_insights.                                       *)
(***************************************************************************)
\* priority_order.get(x.priority, 3)
PriorityRank(priority) ==
    CASE priority = "high"   -> 0
      [] priority = "medium" -> 1
      [] priority = "low"    -> 2
      [] OTHER               -> 3

\* InsertByRank that puts x in front of the entries of its own rank: the sort
\* it gives is not stable
InsertBeforeEqual(sorted, x) ==
    LET n == Cardinality({i \in 1..Len(sorted) :
                            PriorityRank(sorted[i].priority) < PriorityRank(x.priority)})
    IN  SubSeq(sorted, 1, n) \o <<x>> \o SubSeq(sorted, n + 1, Len(sorted))

\* x placed into a list already in rank order: behind every entry of its own
\* or a smaller rank
InsertByRank(sorted, x) ==
    LET n == Cardinality({i \in 1..Len(sorted) :
                            PriorityRank(sorted[i].priority) <= PriorityRank(x.priority)})
    IN  SubSeq(sorted, 1, n) \o <<x>> \o SubSeq(sorted, n + 1, Len(sorted))

\* all_insights.sort(key=...): Python's sort is stable
RECURSIVE SortByPriority(_)
SortByPriority(insights) ==
    IF insights = <<>> THEN <<>>
    ELSE InsertByRank(SortByPriority(SubSeq(insights, 1, Len(insights) - 1)),
                      insights[Len(insights)])

\* sum(self._get_value(row, key, 0) for row in data): [raised, v]
RECURSIVE SumField(_, _)
SumField(data, key) ==
    IF data = <<>> THEN Returned(0)
    ELSE LET first == GetValue(Head(data), key, 0)
             rest  == SumField(Tail(data), key)
         IN  IF first.raised \/ rest.raised THEN Raised
             ELSE Returned(first.v + rest.v)

\* a / b in fixed point for b > 0, rounded down to the model's resolution; the
\* digits are taken one at a time to stay inside TLC's integers
FixDiv(a, b) ==
    LET r0 == a % b
        d1 == (r0 * 10) \div b
        r1 == (r0 * 10) % b
        d2 == (r1 * 10) \div b
        r2 == (r1 * 10) % b
        d3 == (r2 * 10) \div b
        r3 == (r2 * 10) % b
        d4 == (r3 * 10) \div b
    IN  (a \div b) * Scale + d1 * 1000 + d2 * 100 + d3 * 10 + d4

\* total_revenue / total_spend if total_spend > 0 else 0
OverallRoas(total_revenue, total_spend) ==
    IF total_spend > 0 THEN FixDiv(total_revenue, total_spend) ELSE 0

\* OverallCtr left as a fraction (the * 100 forgotten)
OverallCtrFraction(total_clicks, total_impressions) ==
    IF total_impressions > 0 THEN FixDiv(total_clicks, total_impressions) ELSE 0

\* (total_clicks / total_impressions * 100) if total_impressions > 0 else 0
OverallCtr(total_clicks, total_impressions) ==
    IF total_impressions > 0 THEN FixDiv(total_clicks, total_impressions) * 100 ELSE 0

MetricsOverview(data) ==
    LET total_spend       == SumField(data, "spend")
        total_revenue     == SumField(data, "purchase_value")
        total_purchases   == SumField(data, "purchases")
        total_clicks      == SumField(data, "clicks")
        total_impressions == SumField(data, "impressions")
    IN  IF \/ total_spend.raised \/ total_revenue.raised \/ total_purchases.raised
           \/ total_clicks.raised \/ total_impressions.raised
        THEN [raised |-> TRUE, metrics |-> <<>>]
        ELSE [raised |-> FALSE,
              metrics |-> <<
                <<"total_spend", total_spend.v>>,
                <<"total_revenue", total_revenue.v>>,
                <<"overall_roas", OverallRoas(total_revenue.v, total_spend.v)>>,
                <<"total_purchases", total_purchases.v>>,
                <<"total_clicks", total_clicks.v>>,
                <<"total_impressions", total_impressions.v>>,
                <<"overall_ctr", OverallCtr(total_clicks.v, total_impressions.v)>>,
                <<"total_ads", Len(data)>> >>]

\* the merged list, before the sort
Concatenated(roas, ctr, conversion, frequency) == roas \o ctr \o conversion \o frequency

(***************************************************************************)
(* StatusDecisionAgent.decide_status(row, insights): [raised, ad].         *)
(***************************************************************************)
Min(a, b) == IF a <= b THEN a ELSE b

Take(q, n) == SubSeq(q, 1, Min(n, Len(q)))

Recommendations(q) == [k \in 1..Len(q) |-> q[k].recommendation]

Conditions(q) == [k \in 1..Len(q) |-> q[k].condition]

\* ad_insights: the insights whose affected_ads hold this ad's id
InsightsFor(ad_id, insights) ==
    LET ForAd(i) == ad_id \in SeqElems(i.affected_ads)
    IN  SelectSeq(insights, ForAd)

\* high_priority_issues
HighPriority(ad_ins) ==
    LET IsHigh(i) == i.priority = "high"
    IN  SelectSeq(ad_ins, IsHigh)

\* Cascade with the test band looked at before the count of high-priority issues
CascadeTestFirst(ad_ins, high_priority_issues, roas, ctr, spend, frequency) ==
    IF roas < F(1, 0) /\ spend > F(50, 0)
    THEN [status |-> "pause", recs |-> <<>>,
          issues |-> << <<"Unprofitable: ROAS ", Fmt2(roas)>> >>]
    ELSE IF frequency > F(5, 0) /\ ctr < F(0, 5)
    THEN [status |-> "pause", recs |-> <<>>,
          issues |-> << <<"Severe fatigue: Frequency ", Fmt2(frequency),
                          ", CTR ", Fmt2(ctr), "%">> >>]
    ELSE IF (F(1, 0) <= roas /\ roas <= F(2, 5)) \/ (ctr > F(2, 0) /\ roas < F(2, 0))
    THEN [status |-> "test", recs |-> Recommendations(ad_ins), issues |-> <<>>]
    ELSE IF Len(high_priority_issues) >= 2
    THEN [status |-> "fix", recs |-> Recommendations(high_priority_issues),
          issues |-> Conditions(high_priority_issues)]
    ELSE IF roas > F(2, 5) /\ ctr > F(1, 5)
    THEN [status |-> "keep", recs |-> <<"Continue monitoring; performing well">>,
          issues |-> <<>>]
    ELSE [status |-> "keep", recs |-> <<>>, issues |-> <<>>]

\* the if / elif chain: [status, recs, issues]
Cascade(ad_ins, high_priority_issues, roas, ctr, spend, frequency) ==
    IF roas < F(1, 0) /\ spend > F(50, 0)
    THEN [status |-> "pause", recs |-> <<>>,
          issues |-> << <<"Unprofitable: ROAS ", Fmt2(roas)>> >>]
    ELSE IF frequency > F(5, 0) /\ ctr < F(0, 5)
    THEN [status |-> "pause", recs |-> <<>>,
          issues |-> << <<"Severe fatigue: Frequency ", Fmt2(frequency),
                          ", CTR ", Fmt2(ctr), "%">> >>]
    ELSE IF Len(high_priority_issues) >= 2
    THEN [status |-> "fix", recs |-> Recommendations(high_priority_issues),
          issues |-> Conditions(high_priority_issues)]
    ELSE IF (F(1, 0) <= roas /\ roas <= F(2, 5)) \/ (ctr > F(2, 0) /\ roas < F(2, 0))
    THEN [status |-> "test", recs |-> Recommendations(ad_ins), issues |-> <<>>]
    ELSE IF roas > F(2, 5) /\ ctr > F(1, 5)
    THEN [status |-> "keep", recs |-> <<"Continue monitoring; performing well">>,
          issues |-> <<>>]
    ELSE [status |-> "keep", recs |-> <<>>, issues |-> <<>>]

\* AdInsight that hands out every recommendation it has (no [:5])
AdInsightUncut(ad_id, ad_name, branch, ad_ins, roas, ctr, spend, frequency) ==
    [ad_id |-> ad_id, ad_name |-> ad_name, status |-> branch.status,
     recommendations |->
        IF branch.recs = <<>> THEN Recommendations(Take(ad_ins, 3)) ELSE branch.recs,
     metrics |-> [roas |-> roas, ctr |-> ctr, spend |-> spend, frequency |-> frequency],
     issues |-> branch.issues]

\* the default recommendations and the AdInsight returned
AdInsight(ad_id, ad_name, branch, ad_ins, roas, ctr, spend, frequency) ==
    [ad_id |-> ad_id, ad_name |-> ad_name, status |-> branch.status,
     recommendations |->
        Take(IF branch.recs = <<>> THEN Recommendations(Take(ad_ins, 3)) ELSE branch.recs, 5),
     metrics |-> [roas |-> roas, ctr |-> ctr, spend |-> spend, frequency |-> frequency],
     issues |-> branch.issues]

DecideFor(ad_id, ad_name, ad_ins, roas, ctr, spend, frequency) ==
    AdInsight(ad_id, ad_name,
              Cascade(ad_ins, HighPriority(ad_ins), roas, ctr, spend, frequency),
              ad_ins, roas, ctr, spend, frequency)

DecideCoerced(ad_id, ad_name, insights, roas, ctr, spend, frequency) ==
    IF roas.raised \/ ctr.raised \/ spend.raised \/ frequency.raised
    THEN [raised |-> TRUE, ad |-> <<>>]
    ELSE [raised |-> FALSE,
          ad |-> DecideFor(ad_id, ad_name, InsightsFor(ad_id, insights),
                           roas.v, ctr.v, spend.v, frequency.v)]

decide_status(row, insights) ==
    DecideCoerced(AdIdOf(row), AdNameOf(row), insights,
                  GetValue(row, "roas", 0), GetValue(row, "ctr", 0),
                  GetValue(row, "spend", 0), GetValue(row, "frequency", 0))

\* the loop of InsightGraph._decide_status: [raised, ads]
DecideAll(data, insights) ==
    LET each == [i \in 1..Len(data) |-> decide_status(data[i], insights)]
    IN  IF \E i \in 1..Len(data) : each[i].raised THEN [raised |-> TRUE, ads |-> <<>>]
        ELSE [raised |-> FALSE, ads |-> [i \in 1..Len(data) |-> each[i].ad]]

CountStatus(ads, status) == Cardinality({i \in 1..Len(ads) : ads[i].status = status})

CountHigh(insights) == Cardinality({i \in 1..Len(insights) : insights[i].priority = "high"})

\* what _generate_summary puts into its prompt
SummaryPrompt(metrics, insights, ads) ==
    [total_spend   |-> Fmt2(DictGet(metrics, "total_spend", 0)),
     total_revenue |-> Fmt2(DictGet(metrics, "total_revenue", 0)),
     overall_roas  |-> Fmt2(DictGet(metrics, "overall_roas", 0)),
     overall_ctr   |-> Fmt2(DictGet(metrics, "overall_ctr", 0)),
     high_priority |-> CountHigh(insights),
     pause_count   |-> CountStatus(ads, "pause"),
     fix_count     |-> CountStatus(ads, "fix"),
     test_count    |-> CountStatus(ads, "test")]

(***************************************************************************)
(* InsightAgentEngine.analyze and the graph it runs, one action per step.  *)
(* pc: "start", "await_column_mapping", the graph's node names,            *)
(* "await_summary", "build_response", "done", "raised".                    *)
(***************************************************************************)
NoResponse == [kind |-> "none"]
NoAnswer   == [status |-> 0, detail |-> ""]
NoCall     == [fn |-> "none"]
Pending    == [kind |-> "pending"]

RaisedAt(step) == [kind |-> "raised", at |-> step]

\* list(request.data[0].keys()) if request.data else []
ColumnsOf(data) ==
    IF data = <<>> THEN <<>> ELSE [i \in 1..Len(data[1]) |-> data[1][i][1]]

\* if request.column_mapping:  (None and the empty dict are both false)
MappingSupplied(req) == req.column_mapping.given /\ req.column_mapping.map # <<>>

graphVars == <<roas_insights, ctr_insights, conversion_insights, frequency_insights,
               all_insights, ad_insights, metrics_overview, summary>>

\* Step 1, the request brought its own mapping
StartExplicit ==
    /\ pc = "start"
    /\ MappingSupplied(request)
    /\ LET n == normalize_data(request.data, request.column_mapping.map)
       IN  /\ column_mapping' = request.column_mapping.map
           /\ IF n.raised
              THEN /\ pc' = "raised"
                   /\ response' = RaisedAt("normalize_data")
                   /\ UNCHANGED normalized_data
              ELSE /\ pc' = "analyze_roas"
                   /\ normalized_data' = n.rows
                   /\ UNCHANGED response
    /\ UNCHANGED <<request, graphVars, llm_calls, http, call>>

\* Step 1, auto-detection: the fuzzy pass; the collaborator is asked when
\* some column stays unmapped
StartAuto ==
    /\ pc = "start"
    /\ ~MappingSupplied(request)
    /\ LET fp == FuzzyPass(ColumnsOf(request.data), <<>>, <<>>)
       IN  /\ column_mapping' = fp.mapping
           /\ IF fp.unmapped # <<>>
              THEN /\ llm_calls' = Append(llm_calls,
                          [fn |-> "map_columns", columns |-> fp.unmapped, reply |-> Pending])
                   /\ pc' = "await_column_mapping"
                   /\ UNCHANGED <<normalized_data, response>>
              ELSE LET n == normalize_data(request.data, fp.mapping)
                   IN  /\ UNCHANGED llm_calls
                       /\ IF n.raised
                          THEN /\ pc' = "raised"
                               /\ response' = RaisedAt("normalize_data")
                               /\ UNCHANGED normalized_data
                          ELSE /\ pc' = "analyze_roas"
                               /\ normalized_data' = n.rows
                               /\ UNCHANGED response
    /\ UNCHANGED <<request, graphVars, http, call>>

\* the answers of the column-mapping collaborator that the model draws from
Pair(k, v) == [pair |-> TRUE, k |-> k, v |-> v]
BadItem    == [pair |-> FALSE, k |-> "", v |-> Str("")]

AllTo(unmapped, v) == [i \in 1..Len(unmapped) |-> <<unmapped[i], v>>]

JsonObject(members) == [kind |-> "json", value |-> [j |-> "object", members |-> members]]
JsonArray(items)    == [kind |-> "json", value |-> [j |-> "array", items |-> items]]

MappingReplies(unmapped, mapping) ==
    {[kind |-> "raise"], [kind |-> "text"], [kind |-> "json", value |-> [j |-> "scalar"]]}
    \cup {JsonArray(<<>>), JsonArray(<<Pair(unmapped[1], Str("spend"))>>),
          JsonArray(<<Pair(unmapped[1], Str("spend")), BadItem>>)}
    \cup {JsonObject(AllTo(unmapped, v)) :
            v \in {Str("spend"), Str("unknown"), Str("banana"), List(1)}}
    \cup {JsonObject(<<>>), JsonObject(<< <<unmapped[1], Str("roas")>> >>),
          JsonObject(Append(AllTo(unmapped, Str("unknown")), <<"Extra", Str("spend")>>))}
    \cup {JsonObject(Append(AllTo(unmapped, Str("unknown")), <<mapping[1][1], Str("status")>>)) :
            x \in IF mapping = <<>> THEN {} ELSE {1}}

\* the collaborator answers; second pass of map_columns_with_llm, then normalize_data
ColumnMappingReply ==
    /\ pc = "await_column_mapping"
    /\ \E reply \in MappingReplies(llm_calls[Len(llm_calls)].columns, column_mapping) :
         LET unmapped == llm_calls[Len(llm_calls)].columns
             mapping  == ApplyReply(column_mapping, unmapped, reply)
             n        == normalize_data(request.data, mapping)
         IN  /\ llm_calls' = [llm_calls EXCEPT ![Len(llm_calls)].reply = reply]
             /\ column_mapping' = mapping
             /\ IF n.raised
                THEN /\ pc' = "raised"
                     /\ response' = RaisedAt("normalize_data")
                     /\ UNCHANGED normalized_data
                ELSE /\ pc' = "analyze_roas"
                     /\ normalized_data' = n.rows
                     /\ UNCHANGED response
    /\ UNCHANGED <<request, graphVars, http, call>>

\* node analyze_roas; the state key is merged with operator.add
AnalyzeRoas ==
    /\ pc = "analyze_roas"
    /\ LET r == ROASAgent_analyze(normalized_data)
       IN  IF r.raised
           THEN /\ pc' = "raised" /\ response' = RaisedAt("analyze_roas")
                /\ UNCHANGED roas_insights
           ELSE /\ pc' = "analyze_ctr" /\ roas_insights' = roas_insights \o r.out
                /\ UNCHANGED response
    /\ UNCHANGED <<request, column_mapping, normalized_data, ctr_insights, conversion_insights,
                   frequency_insights, all_insights, ad_insights, metrics_overview, summary,
                   llm_calls, http, call>>

\* node analyze_ctr
AnalyzeCtr ==
    /\ pc = "analyze_ctr"
    /\ LET r == CTRAgent_analyze(normalized_data)
       IN  IF r.raised
           THEN /\ pc' = "raised" /\ response' = RaisedAt("analyze_ctr")
                /\ UNCHANGED ctr_insights
           ELSE /\ pc' = "analyze_conversion" /\ ctr_insights' = ctr_insights \o r.out
                /\ UNCHANGED response
    /\ UNCHANGED <<request, column_mapping, normalized_data, roas_insights, conversion_insights,
                   frequency_insights, all_insights, ad_insights, metrics_overview, summary,
                   llm_calls, http, call>>

\* node analyze_conversion
AnalyzeConversion ==
    /\ pc = "analyze_conversion"
    /\ LET r == ConversionAgent_analyze(normalized_data)
       IN  IF r.raised
           THEN /\ pc' = "raised" /\ response' = RaisedAt("analyze_conversion")
                /\ UNCHANGED conversion_insights
           ELSE /\ pc' = "analyze_frequency"
                /\ conversion_insights' = conversion_insights \o r.out
                /\ UNCHANGED response
    /\ UNCHANGED <<request, column_mapping, normalized_data, roas_insights, ctr_insights,
                   frequency_insights, all_insights, ad_insights, metrics_overview, summary,
                   llm_calls, http, call>>

\* node analyze_frequency
AnalyzeFrequency ==
    /\ pc = "analyze_frequency"
    /\ LET r == FrequencyAgent_analyze(normalized_data)
       IN  IF r.raised
           THEN /\ pc' = "raised" /\ response' = RaisedAt("analyze_frequency")
                /\ UNCHANGED frequency_insights
           ELSE /\ pc' = "aggregate_insights"
                /\ frequency_insights' = frequency_insights \o r.out
                /\ UNCHANGED response
    /\ UNCHANGED <<request, column_mapping, normalized_data, roas_insights, ctr_insights,
                   conversion_insights, all_insights, ad_insights, metrics_overview, summary,
                   llm_calls, http, call>>

\* node aggregate_insights
AggregateInsights ==
    /\ pc = "aggregate_insights"
    /\ LET merged == SortByPriority(Concatenated(roas_insights, ctr_insights,
                                                 conversion_insights, frequency_insights))
           m == MetricsOverview(normalized_data)
       IN  IF m.raised
           THEN /\ pc' = "raised" /\ response' = RaisedAt("aggregate_insights")
                /\ UNCHANGED <<all_insights, metrics_overview>>
           ELSE /\ pc' = "decide_status"
                /\ all_insights' = merged
                /\ metrics_overview' = m.metrics
                /\ UNCHANGED response
    /\ UNCHANGED <<request, column_mapping, normalized_data, roas_insights, ctr_insights,
                   conversion_insights, frequency_insights, ad_insights, summary,
                   llm_calls, http, call>>

\* node decide_status
DecideStatus ==
    /\ pc = "decide_status"
    /\ LET d == DecideAll(normalized_data, all_insights)
       IN  IF d.raised
           THEN /\ pc' = "raised" /\ response' = RaisedAt("decide_status")
                /\ UNCHANGED ad_insights
           ELSE /\ pc' = "generate_summary" /\ ad_insights' = d.ads
                /\ UNCHANGED response
    /\ UNCHANGED <<request, column_mapping, normalized_data, roas_insights, ctr_insights,
                   conversion_insights, frequency_insights, all_insights, metrics_overview,
                   summary, llm_calls, http, call>>

\* GenerateSummary that does not ask for a summary when there is no ad
GenerateSummarySkipEmpty ==
    /\ pc = "generate_summary"
    /\ IF ad_insights = <<>>
       THEN /\ pc' = "build_response"
            /\ UNCHANGED llm_calls
       ELSE /\ llm_calls' = Append(llm_calls,
                  [fn |-> "summary",
                   prompt |-> SummaryPrompt(metrics_overview, all_insights, ad_insights),
                   reply |-> Pending])
            /\ pc' = "await_summary"
    /\ UNCHANGED <<request, column_mapping, normalized_data, graphVars, response, http, call>>

\* node generate_summary, up to llm.invoke(summary_prompt)
GenerateSummary ==
    /\ pc = "generate_summary"
    /\ llm_calls' = Append(llm_calls,
          [fn |-> "summary",
           prompt |-> SummaryPrompt(metrics_overview, all_insights, ad_insights),
           reply |-> Pending])
    /\ pc' = "await_summary"
    /\ UNCHANGED <<request, column_mapping, normalized_data, graphVars, response, http, call>>

SummaryReplies == {[kind |-> "raise"], [kind |-> "content", text |-> " Account is healthy. "]}

\* SummaryReply that swallows the collaborator's failure and goes on with a
\* stock text
SummaryReplyDefaulted ==
    /\ pc = "await_summary"
    /\ \E reply \in SummaryReplies :
         /\ llm_calls' = [llm_calls EXCEPT ![Len(llm_calls)].reply = reply]
         /\ pc' = "build_response"
         /\ summary' = IF reply.kind = "raise" THEN "Summary unavailable"
                       ELSE Strip(reply.text)
         /\ UNCHANGED response
    /\ UNCHANGED <<request, column_mapping, normalized_data, roas_insights, ctr_insights,
                   conversion_insights, frequency_insights, all_insights, ad_insights,
                   metrics_overview, http, call>>

\* llm.invoke returns or raises; summary = response.content.strip()
SummaryReply ==
    /\ pc = "await_summary"
    /\ \E reply \in SummaryReplies :
         /\ llm_calls' = [llm_calls EXCEPT ![Len(llm_calls)].reply = reply]
         /\ IF reply.kind = "raise"
            THEN /\ pc' = "raised" /\ response' = RaisedAt("generate_summary")
                 /\ UNCHANGED summary
            ELSE /\ pc' = "build_response" /\ summary' = Strip(reply.text)
                 /\ UNCHANGED response
    /\ UNCHANGED <<request, column_mapping, normalized_data, roas_insights, ctr_insights,
                   conversion_insights, frequency_insights, all_insights, ad_insights,
                   metrics_overview, http, call>>

\* Step 3 of InsightAgentEngine.analyze
BuildResponse ==
    /\ pc = "build_response"
    /\ response' = [kind |-> "report",
                    summary |-> summary,
                    insights |-> all_insights,
                    ad_insights |-> ad_insights,
                    metrics_overview |-> metrics_overview,
                    execution_metadata |->
                        [total_ads_analyzed |-> Len(normalized_data),
                         column_mapping |-> column_mapping,
                         insights_generated |-> Len(all_insights)]]
    /\ pc' = "done"
    /\ UNCHANGED <<request, column_mapping, normalized_data, graphVars, llm_calls, http, call>>

\* POST /analyze and /analyze/simple: the try / except around the engine
HttpAnswer ==
    /\ pc \in {"done", "raised"}
    /\ http = NoAnswer
    /\ http' = IF pc = "done" THEN [status |-> 200, detail |-> "report"]
               ELSE [status |-> 500, detail |-> "Analysis failed"]
    /\ UNCHANGED <<request, column_mapping, normalized_data, graphVars, llm_calls,
                   response, pc, call>>

(***************************************************************************)
(* Library calls made on their own: call holds the arguments, then the     *)
(* result.                                                                 *)
(***************************************************************************)
GetValueCall ==
    /\ call.fn = "_get_value"
    /\ ~call.done
    /\ call' = [call EXCEPT !.done = TRUE,
                            !.ret = GetValue(call.row, call.key, call.default)]
    /\ UNCHANGED <<request, column_mapping, normalized_data, graphVars, llm_calls,
                   response, http, pc>>

FuzzyMatchCall ==
    /\ call.fn = "fuzzy_match"
    /\ ~call.done
    /\ call' = [call EXCEPT !.done = TRUE, !.ret = fuzzy_match(call.column)]
    /\ UNCHANGED <<request, column_mapping, normalized_data, graphVars, llm_calls,
                   response, http, pc>>

DecideStatusCall ==
    /\ call.fn = "decide_status"
    /\ ~call.done
    /\ call' = [call EXCEPT !.done = TRUE,
                            !.ret = decide_status(call.row, call.insights)]
    /\ UNCHANGED <<request, column_mapping, normalized_data, graphVars, llm_calls,
                   response, http, pc>>

(***************************************************************************)
(* Inputs.                                                                 *)
(***************************************************************************)
SeqsUpTo(S, n) == UNION {[1..k -> S] : k \in 0..n}

NotGiven   == [given |-> FALSE, map |-> <<>>]
Given(map) == [given |-> TRUE, map |-> map]

\* every header is resolved by the fuzzy pass
RowA == << <<"Ad ID", Str("ad_001")>>, <<"ROAS", Flt(18000)>>, <<"Spend", Int_(1500)>>,
           <<"CTR %", Flt(16000)>> >>
\* one header ("Margin") that the fuzzy pass leaves unmapped
RowB == << <<"ad_id", Str("ad_002")>>, <<"roas", Flt(8000)>>, <<"spend", Int_(2000)>>,
           <<"Margin", Int_(5)>> >>
\* a JSON array where a number is expected
RowC == << <<"ad_id", Str("ad_003")>>, <<"roas", List(1)>> >>
\* two unmapped headers
RowD == << <<"Notes", Str("n/a")>>, <<"Tier", Int_(2)>>, <<"roas", Str("3.5")>>,
           <<"ctr", Str("3.2%")>> >>
\* canonical keys
RowE == << <<"roas", Int_(4)>>, <<"ctr", Flt(4000)>>, <<"frequency", Int_(6)>>,
           <<"spend", Int_(100)>>, <<"impressions", Int_(5000)>>,
           <<"clicks", Int_(20)>>, <<"purchase_value", Int_(400)>> >>

RawRows == {RowA, RowB, RowC, RowD, RowE}

ExplicitMapping == << <<"Ad ID", Str("ad_id")>>, <<"ROAS", Str("roas")>>,
                      <<"Spend", Str("spend")>>, <<"CTR %", Str("ctr")>>,
                      <<"Notes", Str("unknown")>> >>

Requests ==
    [data : SeqsUpTo(RawRows, MaxRows),
     column_mapping : {NotGiven, Given(<<>>), Given(ExplicitMapping)}]

\* initial_state of InsightAgentEngine.analyze, and nothing called yet
Blank ==
    /\ roas_insights = <<>> /\ ctr_insights = <<>>
    /\ conversion_insights = <<>> /\ frequency_insights = <<>>
    /\ all_insights = <<>> /\ ad_insights = <<>>
    /\ metrics_overview = <<>> /\ summary = ""
    /\ llm_calls = <<>> /\ response = NoResponse /\ http = NoAnswer

NoRequest == [data |-> <<>>, column_mapping |-> NotGiven]

(***************************************************************************)
(* Spec: one run of POST /analyze.                                         *)
(***************************************************************************)
Init ==
    /\ request \in Requests
    /\ column_mapping = <<>> /\ normalized_data = <<>>
    /\ Blank
    /\ pc = "start"
    /\ call = NoCall

Next ==
    \/ StartExplicit
    \/ StartAuto
    \/ ColumnMappingReply
    \/ AnalyzeRoas
    \/ AnalyzeCtr
    \/ AnalyzeConversion
    \/ AnalyzeFrequency
    \/ AggregateInsights
    \/ DecideStatus
    \/ GenerateSummary
    \/ SummaryReply
    \/ BuildResponse
    \/ HttpAnswer

Spec == Init /\ [][Next]_vars

(***************************************************************************)
(* SpecCoerce: _get_value on one stored value.                             *)
(***************************************************************************)
CoerceChars == {"1", "5", ".", "%", ",", " ", "-", "a"}

RECURSIVE Texts(_)
Texts(n) ==
    IF n = 0 THEN {""}
    ELSE Texts(n - 1) \cup {s \o c : s \in Texts(n - 1), c \in CoerceChars}

SampleTexts == {"  1,234.5% ", "abc", "12%", "1,000", "+.5", "1.2.3"}

CoerceValues ==
    {Str(s) : s \in Texts(MaxStrLen) \cup SampleTexts}
    \cup {None, BigInt, Bool(TRUE), Bool(FALSE)}
    \cup {Int_(v) : v \in {0, 7, -7}}
    \cup {Flt(v) : v \in {0, 12345, -5000}}
    \cup {List(n) : n \in {0, 1}} \cup {Dict(n) : n \in {0, 1}}

InitCoerce ==
    /\ call \in {[fn |-> "_get_value", done |-> FALSE, row |-> r, key |-> k,
                  default |-> d, ret |-> Returned(0)] :
                   r \in {<<>>} \cup {<< <<"spend", v>> >> : v \in CoerceValues},
                   k \in {"spend", "roas"},
                   d \in {0, F(7, 0)}}
    /\ request = NoRequest /\ column_mapping = <<>> /\ normalized_data = <<>>
    /\ Blank
    /\ pc = "idle"

NextCoerce == GetValueCall

SpecCoerce == InitCoerce /\ [][NextCoerce]_vars

(***************************************************************************)
(* SpecFuzzy: fuzzy_match on one column name.                              *)
(***************************************************************************)
Aliases == UNION {SeqElems(Variations(i)) : i \in 1..Len(STANDARD_COLUMNS)}

\* the headers of sample_data in test_engine.py
SampleHeaders == {"Campaign name", "Ad name", "Ad ID", "Spend", "Impressions", "Clicks",
                  "CTR %", "Frequency", "ROAS", "Purchases", "Purchase value",
                  "Adds to cart", "ATC→Purchase %"}

FuzzyColumns ==
    StandardNames \cup Aliases \cup SampleHeaders
    \cup {"Margin", "Notes", "Tier", "xyz", "", " ROAS ", "CTR 7d", "ATC to purchase"}

InitFuzzy ==
    /\ call \in {[fn |-> "fuzzy_match", done |-> FALSE, column |-> c,
                  ret |-> [found |-> FALSE, standard |-> ""]] : c \in FuzzyColumns}
    /\ request = NoRequest /\ column_mapping = <<>> /\ normalized_data = <<>>
    /\ Blank
    /\ pc = "idle"

NextFuzzy == FuzzyMatchCall

SpecFuzzy == InitFuzzy /\ [][NextFuzzy]_vars

(***************************************************************************)
(* SpecROAS: ROASAgent.analyze (node analyze_roas) on records whose roas   *)
(* and spend sit on and around the thresholds.                             *)
(***************************************************************************)
\* a dict from the chosen fields; Missing leaves the key out
Missing == [t |-> "missing"]

Field(key, v) == IF v.t = "missing" THEN <<>> ELSE << <<key, v>> >>

RoasValues  == {Missing, Flt(9999), Int_(1), Str("2.0"), Flt(20001), Int_(3),
                Flt(30001), Str("n/a")}
SpendValues == {Missing, Int_(50), Flt(500001)}
AdIdValues  == {Missing, Str("a1")}

RoasRows ==
    {Field("ad_id", a) \o Field("roas", r) \o Field("spend", sp) :
        a \in AdIdValues, r \in RoasValues, sp \in SpendValues}

InitROAS ==
    /\ normalized_data \in SeqsUpTo(RoasRows, MaxRows)
    /\ request = NoRequest /\ column_mapping = <<>>
    /\ Blank
    /\ pc = "analyze_roas"
    /\ call = NoCall

NextROAS == AnalyzeRoas

SpecROAS == InitROAS /\ [][NextROAS]_vars

(***************************************************************************)
(* SpecGraph: the graph from its entry point through aggregate_insights.   *)
(***************************************************************************)
Row(id, roas, spend, ctr, impressions, add_to_cart, atc_to_purchase, frequency) ==
    << <<"ad_id", Str(id)>>, <<"roas", roas>>, <<"spend", spend>>, <<"ctr", ctr>>,
       <<"impressions", impressions>>, <<"add_to_cart", add_to_cart>>,
       <<"atc_to_purchase", atc_to_purchase>>, <<"frequency", frequency>> >>

\* records that make the analyzers emit findings of mixed priorities
MixRows == {
    Row("m1", Flt(35000), Int_(10), Flt(8000), Int_(5000), Int_(8), Int_(35), Int_(6)),
    Row("m2", Flt(15000), Int_(10), Flt(35000), Int_(500), Int_(20), Int_(10), Int_(2)),
    Row("m3", Flt(25000), Int_(10), Int_(2), Int_(500), Int_(8), Int_(25), Int_(2)),
    Row("m4", Flt(5000), Int_(100), Flt(12000), Int_(500), Int_(6), Int_(40), Int_(6)),
    Row("m5", Int_(4), Int_(10), Flt(12000), Int_(500), Int_(2), Int_(40), Int_(1)) }

\* records for the account totals: small amounts of either sign, text, a gap,
\* and a JSON array under "clicks"
MetricRow(spend, purchase_value, clicks, impressions) ==
    Field("spend", spend) \o Field("purchase_value", purchase_value)
      \o Field("purchases", Int_(1)) \o Field("clicks", clicks)
      \o Field("impressions", impressions)

MetricRows == {
    MetricRow(Int_(2), Int_(5), Int_(1), Int_(4)),
    MetricRow(Int_(-2), Int_(5), Int_(1), Int_(-4)),
    MetricRow(Str("1.5"), Missing, Str("3"), Int_(0)),
    MetricRow(Missing, Int_(5), Int_(1), Int_(4)),
    MetricRow(Int_(2), Int_(5), List(1), Int_(4)),
    MetricRow(Int_(-2), Missing, Str("3"), Int_(4)),
    MetricRow(Int_(2), Int_(5), Int_(1), Int_(-4)),
    MetricRow(Str("1.5"), Int_(5), Int_(1), Int_(0)) }

InitGraph ==
    /\ normalized_data \in SeqsUpTo(MixRows, MaxRows) \cup SeqsUpTo(MetricRows, MaxRows)
    /\ request = NoRequest /\ column_mapping = <<>>
    /\ Blank
    /\ pc = "analyze_roas"
    /\ call = NoCall

NextGraph ==
    \/ AnalyzeRoas
    \/ AnalyzeCtr
    \/ AnalyzeConversion
    \/ AnalyzeFrequency
    \/ AggregateInsights

SpecGraph == InitGraph /\ [][NextGraph]_vars

(***************************************************************************)
(* SpecDecide: StatusDecisionAgent.decide_status on one record and one     *)
(* finding list.                                                           *)
(***************************************************************************)
DecideRoas  == {Missing, Flt(9999), Int_(1), Flt(19999), Flt(25000), Flt(25001)}
DecideSpend == {Int_(50), Flt(500001)}
DecideFreq  == {Int_(5), Flt(50001)}
DecideCtr   == {Flt(4999), Flt(5000), Flt(15000), Flt(15001), Flt(20001)}

DecideRows ==
    {Field("ad_id", a) \o Field("roas", r) \o Field("spend", sp)
       \o Field("frequency", f) \o Field("ctr", c) :
        a \in AdIdValues, r \in DecideRoas, sp \in DecideSpend, f \in DecideFreq,
        c \in DecideCtr}
    \cup {<< <<"ad_id", Str("a1")>>, <<"roas", List(1)>> >>}

\* findings as the analyzers build them, for the ad "a1", for another ad, and
\* for records without an ad_id
InsightPool == {
    ROASRules(F(1, 5), F(10, 0), "a1").out[1],
    CTRRules(F(0, 8), 0, 0, 0, F(5000, 0), "a1").out[1],
    ConversionRules(F(35, 0), F(1, 2), F(6, 0), "a1").out[1],
    FrequencyRules(F(6, 0), F(1, 2), 0, "unknown").out[1],
    CTRRules(F(0, 8), 0, 0, 0, F(5000, 0), "a2").out[1] }

InitDecide ==
    /\ call \in {[fn |-> "decide_status", done |-> FALSE, row |-> r, insights |-> q,
                  ret |-> [raised |-> FALSE, ad |-> <<>>]] :
                   r \in DecideRows, q \in SeqsUpTo(InsightPool, MaxInsights)}
    /\ request = NoRequest /\ column_mapping = <<>> /\ normalized_data = <<>>
    /\ Blank
    /\ pc = "idle"

NextDecide == DecideStatusCall

SpecDecide == InitDecide /\ [][NextDecide]_vars

(***************************************************************************)
(* SpecRecord: the four analyzers, the aggregator and the decider on one   *)
(* record: the end-to-end records of the specification and their           *)
(* neighbours.                                                             *)
(***************************************************************************)
ScenarioRow(roas, ctr, frequency, atc_to_purchase, spend, impressions) ==
    << <<"spend", spend>>, <<"roas", roas>>, <<"ctr", ctr>>, <<"frequency", frequency>>,
       <<"impressions", impressions>>, <<"purchases", Int_(45)>>,
       <<"purchase_value", Int_(2700)>>, <<"add_to_cart", Int_(120)>>,
       <<"atc_to_purchase", atc_to_purchase>> >>

\* {spend: 1500, roas: 1.8, ctr: 1.6, frequency: 2.8, impressions: 75000,
\*  purchases: 45, purchase_value: 2700, add_to_cart: 120, atc_to_purchase: 37.5}
CanonicalRecord ==
    ScenarioRow(Flt(18000), Flt(16000), Flt(28000), Flt(375000), Int_(1500), Int_(75000))

ScenarioRows ==
    {ScenarioRow(roas, ctr, frequency, atc, Int_(1500), Int_(75000)) :
        roas \in {Flt(18000), Flt(8000), Flt(26000)},
        ctr \in {Flt(16000), Flt(6700), Flt(32000)},
        frequency \in {Flt(28000), Flt(42000)},
        atc \in {Flt(375000), Int_(15)}}

InitRecord ==
    /\ normalized_data \in {<<r>> : r \in ScenarioRows}
    /\ request = NoRequest /\ column_mapping = <<>>
    /\ Blank
    /\ pc = "analyze_roas"
    /\ call = NoCall

NextRecord ==
    \/ AnalyzeRoas
    \/ AnalyzeCtr
    \/ AnalyzeConversion
    \/ AnalyzeFrequency
    \/ AggregateInsights
    \/ DecideStatus

SpecRecord == InitRecord /\ [][NextRecord]_vars

(***************************************************************************)
(* SpecRecs: decide_status on one record per branch of the cascade and     *)
(* finding lists long enough for the cut at 5 recommendations.  Records    *)
(* that share an ad_id (or have none: "unknown") share their findings, so  *)
(* one record can be matched by more findings than the four analyzers emit *)
(* for it.                                                                 *)
(***************************************************************************)
BranchRow(roas, ctr, spend, frequency) ==
    << <<"ad_id", Str("a1")>>, <<"roas", roas>>, <<"ctr", ctr>>, <<"spend", spend>>,
       <<"frequency", frequency>> >>

BranchRows == {
    BranchRow(Flt(5000), Flt(16000), Int_(100), Int_(2)),    \* unprofitable
    BranchRow(Int_(3), Flt(2000), Int_(100), Int_(6)),       \* severe fatigue
    BranchRow(Flt(18000), Flt(16000), Int_(100), Int_(2)),   \* test band
    BranchRow(Int_(3), Int_(2), Int_(100), Int_(2)),         \* performing well
    BranchRow(Int_(3), Int_(1), Int_(100), Int_(2)) }        \* nothing holds

FindingPool == {
    ROASRules(F(1, 5), F(10, 0), "a1").out[1],
    CTRRules(F(0, 8), 0, 0, 0, F(5000, 0), "a1").out[1],
    ConversionRules(F(35, 0), F(1, 2), F(6, 0), "a1").out[1],
    CTRRules(F(0, 8), 0, 0, 0, F(5000, 0), "a2").out[1] }

InitRecs ==
    /\ call \in {[fn |-> "decide_status", done |-> FALSE, row |-> r, insights |-> q,
                  ret |-> [raised |-> FALSE, ad |-> <<>>]] :
                   r \in BranchRows, q \in SeqsUpTo(FindingPool, MaxFindings)}
    /\ request = NoRequest /\ column_mapping = <<>> /\ normalized_data = <<>>
    /\ Blank
    /\ pc = "idle"

NextRecs == DecideStatusCall

SpecRecs == InitRecs /\ [][NextRecs]_vars

(***************************************************************************)
(* SpecCTR: CTRAgent.analyze (node analyze_ctr) on records whose fields    *)
(* sit on and around the thresholds of its three rules.                    *)
(***************************************************************************)
CtrRow(ad_id, ctr, ctr_7d, ctr_prev_7d, ctr_drop, impressions) ==
    Field("ad_id", ad_id) \o Field("ctr", ctr) \o Field("ctr_7d", ctr_7d)
        \o Field("ctr_prev_7d", ctr_prev_7d) \o Field("ctr_drop", ctr_drop)
        \o Field("impressions", impressions)

CtrRows == {
    CtrRow(Str("c1"), Int_(2), Missing, Missing, Int_(30), Missing),
    CtrRow(Str("c2"), Int_(2), Missing, Missing, Flt(300001), Missing),
    CtrRow(Str("c3"), Int_(2), Flt(7000), Int_(1), Missing, Missing),
    CtrRow(Str("c4"), Int_(2), Flt(6999), Int_(1), Missing, Missing),
    CtrRow(Str("c5"), Int_(2), Flt(-5000), Missing, Missing, Missing),
    CtrRow(Str("c6"), Int_(1), Missing, Missing, Missing, Int_(5000)),
    CtrRow(Str("c7"), Flt(9999), Missing, Missing, Missing, Int_(1000)),
    CtrRow(Str("c8"), Flt(9999), Missing, Missing, Missing, Flt(10000001)),
    CtrRow(Str("c9"), Missing, Missing, Missing, Missing, Int_(5000)),
    CtrRow(Str("c10"), Int_(3), Missing, Missing, Missing, Missing),
    CtrRow(Str("c11"), Flt(30001), Missing, Missing, Missing, Missing),
    CtrRow(Str("c12"), Flt(35000), Missing, Missing, Int_(31), Missing),
    CtrRow(Str("c13"), Flt(5000), Missing, Missing, Int_(31), Int_(5000)),
    CtrRow(Str("c14"), Str("3.2%"), Str("n/a"), Missing, Str("30"), Str("1,000")),
    CtrRow(Missing, Int_(4), Missing, Missing, Missing, Missing) }

InitCTR ==
    /\ normalized_data \in SeqsUpTo(CtrRows, MaxRows)
    /\ request = NoRequest /\ column_mapping = <<>>
    /\ Blank
    /\ pc = "analyze_ctr"
    /\ call = NoCall

NextCTR == AnalyzeCtr

SpecCTR == InitCTR /\ [][NextCTR]_vars

(***************************************************************************)
(* SpecConversion: ConversionAgent.analyze (node analyze_conversion) on    *)
(* records on and around the thresholds of its three rules.                *)
(***************************************************************************)
ConvRow(ad_id, ctr, atc_to_purchase, add_to_cart) ==
    Field("ad_id", ad_id) \o Field("ctr", ctr)
        \o Field("atc_to_purchase", atc_to_purchase) \o Field("add_to_cart", add_to_cart)

ConvRows == {
    ConvRow(Str("v1"), Flt(15001), Flt(199999), Flt(100001)),
    ConvRow(Str("v2"), Flt(15000), Int_(10), Int_(20)),
    ConvRow(Str("v3"), Int_(2), Int_(20), Int_(20)),
    ConvRow(Str("v4"), Int_(2), Int_(10), Int_(10)),
    ConvRow(Str("v5"), Flt(10001), Int_(25), Flt(49999)),
    ConvRow(Str("v6"), Int_(1), Int_(25), Int_(2)),
    ConvRow(Str("v7"), Int_(2), Int_(25), Int_(5)),
    ConvRow(Str("v8"), Int_(2), Int_(25), Missing),
    ConvRow(Str("v9"), Flt(5000), Int_(30), Int_(20)),
    ConvRow(Str("v10"), Flt(5000), Flt(300001), Int_(20)),
    ConvRow(Str("v11"), Int_(2), Int_(40), Int_(2)),
    ConvRow(Str("v12"), Int_(2), Int_(10), Int_(20)),
    ConvRow(Str("v13"), Missing, Int_(35), Missing),
    ConvRow(Str("v14"), Str("2.0%"), Str("15"), Str("1,200")),
    ConvRow(Missing, Int_(1), Int_(35), Int_(8)) }

InitConversion ==
    /\ normalized_data \in SeqsUpTo(ConvRows, MaxRows)
    /\ request = NoRequest /\ column_mapping = <<>>
    /\ Blank
    /\ pc = "analyze_conversion"
    /\ call = NoCall

NextConversion == AnalyzeConversion

SpecConversion == InitConversion /\ [][NextConversion]_vars

(***************************************************************************)
(* SpecFrequency: FrequencyAgent.analyze (node analyze_frequency) on       *)
(* records on and around the thresholds of its two rules.                  *)
(***************************************************************************)
FreqRow(ad_id, frequency, ctr, ctr_drop) ==
    Field("ad_id", ad_id) \o Field("frequency", frequency) \o Field("ctr", ctr)
        \o Field("ctr_drop", ctr_drop)

FreqRows == {
    FreqRow(Str("q1"), Flt(35000), Flt(5000), Int_(25)),
    FreqRow(Str("q2"), Flt(35001), Flt(9999), Missing),
    FreqRow(Str("q3"), Int_(4), Int_(1), Int_(20)),
    FreqRow(Str("q4"), Int_(4), Int_(2), Flt(200001)),
    FreqRow(Str("q5"), Int_(5), Int_(2), Missing),
    FreqRow(Str("q6"), Flt(50001), Int_(2), Missing),
    FreqRow(Str("q7"), Int_(6), Flt(5000), Missing),
    FreqRow(Str("q8"), Int_(4), Missing, Missing),
    FreqRow(Str("q9"), Missing, Flt(5000), Int_(50)),
    FreqRow(Str("q10"), Str("6"), Str("2%"), Str("n/a")),
    FreqRow(Str("q11"), Int_(3), Int_(2), Int_(10)),
    FreqRow(Missing, Int_(6), Int_(2), Missing) }

InitFrequency ==
    /\ normalized_data \in SeqsUpTo(FreqRows, MaxRows)
    /\ request = NoRequest /\ column_mapping = <<>>
    /\ Blank
    /\ pc = "analyze_frequency"
    /\ call = NoCall

NextFrequency == AnalyzeFrequency

SpecFrequency == InitFrequency /\ [][NextFrequency]_vars

(***************************************************************************)
(* SpecPause: the graph from its entry point through decide_status on      *)
(* records on and around the two pause guards; ids repeat and are missing. *)
(***************************************************************************)
PauseRow(ad_id, roas, spend, frequency, ctr) ==
    Field("ad_id", ad_id) \o Field("roas", roas) \o Field("spend", spend)
        \o Field("frequency", frequency) \o Field("ctr", ctr)

PauseRows == {
    PauseRow(Str("a"), Flt(9999), Flt(500001), Missing, Int_(2)),
    PauseRow(Str("a"), Flt(9999), Int_(50), Missing, Int_(2)),
    PauseRow(Str("b"), Int_(3), Int_(10), Flt(50001), Flt(4999)),
    PauseRow(Str("b"), Int_(3), Int_(10), Int_(5), Flt(4000)),
    PauseRow(Missing, Flt(5000), Int_(100), Int_(6), Flt(2000)),
    PauseRow(Missing, Int_(4), Int_(10), Int_(2), Int_(2)),
    PauseRow(Str("c"), Str("0.5"), Str("1,000"), Missing, Str("1.2%")),
    PauseRow(Str("c"), Missing, Missing, Int_(6), Missing) }

InitPause ==
    /\ normalized_data \in SeqsUpTo(PauseRows, MaxRows)
    /\ request = NoRequest /\ column_mapping = <<>>
    /\ Blank
    /\ pc = "analyze_roas"
    /\ call = NoCall

NextPause ==
    \/ AnalyzeRoas
    \/ AnalyzeCtr
    \/ AnalyzeConversion
    \/ AnalyzeFrequency
    \/ AggregateInsights
    \/ DecideStatus

SpecPause == InitPause /\ [][NextPause]_vars

\* ad_insights of the graph run on data: the four analyzers, the merge and
\* sort of _aggregate_insights, then decide_status on every record
GraphDecisions(data) ==
    DecideAll(data,
              SortByPriority(Concatenated(ROASAgent_analyze(data).out,
                                          CTRAgent_analyze(data).out,
                                          ConversionAgent_analyze(data).out,
                                          FrequencyAgent_analyze(data).out))).ads

(***************************************************************************)
(* Properties.                                                             *)
(***************************************************************************)
Abs(x) == IF x < 0 THEN 0 - x ELSE x

\* q is a / b to the model's resolution (b # 0)
IsRatio(q, a, b) == Abs(q * b - a * Scale) < Abs(b)

\* C1 (SpecDecide): decide_status returns the status of the first guard that
\* holds, in the order pause (roas < 1.0 and spend > 50), pause (frequency > 5.0
\* and ctr < 0.5), fix (two or more high-priority findings naming the record's
\* id), test (1.0 <= roas <= 2.5, or ctr > 2.0 and roas < 2.0), keep (roas > 2.5
\* and ctr > 1.5), keep; guards 1 and 2 together give pause with the
\* "Unprofitable" issue, guards 3 and 4 together give fix.
C1_FirstGuardWins ==
    (call.fn = "decide_status" /\ call.done /\ ~call.ret.raised) =>
        LET roas      == GetValue(call.row, "roas", 0).v
            ctr       == GetValue(call.row, "ctr", 0).v
            spend     == GetValue(call.row, "spend", 0).v
            frequency == GetValue(call.row, "frequency", 0).v
            high == Cardinality({k \in 1..Len(call.insights) :
                        /\ call.insights[k].priority = "high"
                        /\ \E a \in 1..Len(call.insights[k].affected_ads) :
                              call.insights[k].affected_ads[a] = AdIdOf(call.row)})
            g1 == roas < 10000 /\ spend > 500000
            g2 == frequency > 50000 /\ ctr < 5000
            g3 == high >= 2
            g4 == (10000 <= roas /\ roas <= 25000) \/ (ctr > 20000 /\ roas < 20000)
            ad == call.ret.ad
        IN  /\ g1 => /\ ad.status = "pause"
                     /\ Len(ad.issues) = 1
                     /\ ad.issues[1][1] = "Unprofitable: ROAS "
            /\ (~g1 /\ g2) => /\ ad.status = "pause"
                              /\ Len(ad.issues) = 1
                              /\ ad.issues[1][1] = "Severe fatigue: Frequency "
            /\ (~g1 /\ ~g2 /\ g3) => ad.status = "fix"
            /\ (~g1 /\ ~g2 /\ ~g3 /\ g4) => ad.status = "test"
            /\ (~g1 /\ ~g2 /\ ~g3 /\ ~g4) => ad.status = "keep"

\* a record in the test band with two high-priority findings of its own got fix
C1_FixOverTest ==
    /\ call.fn = "decide_status" /\ call.done /\ ~call.ret.raised
    /\ GetValue(call.row, "roas", 0).v = 19999
    /\ Len(HighPriority(InsightsFor(AdIdOf(call.row), call.insights))) = 2
    /\ call.ret.ad.status = "fix"
    /\ Len(call.ret.ad.issues) = 2

\* C2 (SpecROAS): for each record ROASAgent.analyze emits the finding of the
\* first matching row and nothing when none matches: 1.0 <= roas <= 2.0 high
\* (both ends included), else roas < 1.0 and spend > 50 high, else roas > 3.0
\* medium (3.0 itself does not fire); findings come in record order.
C2_RoasRows ==
    pc = "analyze_ctr" =>
        LET data == normalized_data
            roas(i)  == GetValue(data[i], "roas", 0).v
            spend(i) == GetValue(data[i], "spend", 0).v
            kind(i) == IF 10000 <= roas(i) /\ roas(i) <= 20000 THEN "band"
                       ELSE IF roas(i) < 10000 /\ spend(i) > 500000 THEN "unprofitable"
                       ELSE IF roas(i) > 30000 THEN "scale"
                       ELSE "none"
            firing == {i \in 1..Len(data) : kind(i) # "none"}
            nth(k) == CHOOSE i \in firing : Cardinality({j \in firing : j <= i}) = k
        IN  /\ Len(roas_insights) = Cardinality(firing)
            /\ \A k \in 1..Len(roas_insights) :
                 /\ roas_insights[k].category = "roas"
                 /\ roas_insights[k].affected_ads = <<AdIdOf(data[nth(k)])>>
                 /\ kind(nth(k)) = "band" =>
                       /\ roas_insights[k].priority = "high"
                       /\ roas_insights[k].condition[3] = " (1-2 range)"
                 /\ kind(nth(k)) = "unprofitable" =>
                       /\ roas_insights[k].priority = "high"
                       /\ roas_insights[k].condition[3] = " (unprofitable)"
                 /\ kind(nth(k)) = "scale" =>
                       /\ roas_insights[k].priority = "medium"
                       /\ roas_insights[k].condition[3] = " (high performance)"

\* roas = 2.0001 gave nothing and roas = 2.0 (as text) gave the one finding
C2_UpperEndFires ==
    /\ pc = "analyze_ctr"
    /\ Len(normalized_data) = 2
    /\ DictGet(normalized_data[1], "roas", None) = Flt(20001)
    /\ DictGet(normalized_data[2], "roas", None) = Str("2.0")
    /\ Len(roas_insights) = 1
    /\ roas_insights[1].priority = "high"

\* C3 (SpecGraph): all_insights is the ROAS, CTR, Conversion and Frequency
\* findings, concatenated in that order and stably sorted by rank high = 0,
\* medium = 1, low = 2, anything else 3: a permutation of the concatenation,
\* ranks never decreasing, equal priorities in their order of the concatenation.
C3_StableSort ==
    pc = "decide_status" =>
        LET c == roas_insights \o ctr_insights \o conversion_insights \o frequency_insights
            rank(f) == CASE f.priority = "high"   -> 0
                         [] f.priority = "medium" -> 1
                         [] f.priority = "low"    -> 2
                         [] OTHER                 -> 3
            place(i) == Cardinality({j \in 1..Len(c) : rank(c[j]) < rank(c[i])})
                        + Cardinality({j \in 1..i : rank(c[j]) = rank(c[i])})
        IN  /\ Len(all_insights) = Len(c)
            /\ \A i \in 1..Len(c) : all_insights[place(i)] = c[i]
            /\ \A k \in 1..(Len(all_insights) - 1) :
                  rank(all_insights[k]) <= rank(all_insights[k + 1])

\* the concatenation ran [medium, high, high, medium, low, high, high ...]: the
\* sort had to move findings, and it had different findings of one priority to
\* keep in order
C3_SortMoved ==
    /\ pc = "decide_status"
    /\ Len(roas_insights) = 2 /\ Len(ctr_insights) = 2
    /\ roas_insights[1].priority = "medium" /\ roas_insights[2].priority = "high"
    /\ ctr_insights[1].priority = "high" /\ ctr_insights[2].priority = "medium"
    /\ \E k \in 1..Len(conversion_insights) : conversion_insights[k].priority = "low"
    /\ all_insights[1] = roas_insights[2]
    /\ all_insights[2] = ctr_insights[1]

\* C4 as stated (SpecGraph): the totals are the sums of the coerced fields,
\* total_ads the number of records, overall_roas = total_revenue / total_spend
\* when total_spend is not 0 and 0 when it is 0, overall_ctr = total_clicks /
\* total_impressions * 100 when total_impressions is not 0 and 0 when it is 0.
C4_RatiosWheneverNonZero ==
    pc = "decide_status" =>
        LET data == normalized_data
            Sum(key) == LET s[k \in 0..Len(data)] ==
                                IF k = 0 THEN 0 ELSE s[k - 1] + GetValue(data[k], key, 0).v
                        IN  s[Len(data)]
            M(key) == DictGet(metrics_overview, key, -1)
        IN  /\ M("total_spend") = Sum("spend")
            /\ M("total_revenue") = Sum("purchase_value")
            /\ M("total_purchases") = Sum("purchases")
            /\ M("total_clicks") = Sum("clicks")
            /\ M("total_impressions") = Sum("impressions")
            /\ M("total_ads") = Len(data)
            /\ Sum("spend") # 0 =>
                  IsRatio(M("overall_roas"), Sum("purchase_value"), Sum("spend"))
            /\ Sum("spend") = 0 => M("overall_roas") = 0
            /\ Sum("impressions") # 0 =>
                  /\ M("overall_ctr") % 100 = 0
                  /\ IsRatio(M("overall_ctr") \div 100, Sum("clicks"), Sum("impressions"))
            /\ Sum("impressions") = 0 => M("overall_ctr") = 0

\* C4, amended (SpecGraph): the totals are the sums of the coerced fields,
\* total_ads the number of records, overall_roas = total_revenue / total_spend
\* when total_spend > 0 and 0 otherwise, overall_ctr = total_clicks /
\* total_impressions * 100 when total_impressions > 0 and 0 otherwise; the step
\* fails only when the coercion of one of the summed fields fails, never on a
\* division.
C4_RatiosWhenPositive ==
    LET data == normalized_data
        Sum(key) == LET s[k \in 0..Len(data)] ==
                            IF k = 0 THEN 0 ELSE s[k - 1] + GetValue(data[k], key, 0).v
                    IN  s[Len(data)]
        M(key) == DictGet(metrics_overview, key, -1)
    IN  /\ pc = "decide_status" =>
            /\ M("total_spend") = Sum("spend")
            /\ M("total_revenue") = Sum("purchase_value")
            /\ M("total_purchases") = Sum("purchases")
            /\ M("total_clicks") = Sum("clicks")
            /\ M("total_impressions") = Sum("impressions")
            /\ M("total_ads") = Len(data)
            /\ Sum("spend") > 0 =>
                  IsRatio(M("overall_roas"), Sum("purchase_value"), Sum("spend"))
            /\ Sum("spend") <= 0 => M("overall_roas") = 0
            /\ Sum("impressions") > 0 =>
                  /\ M("overall_ctr") % 100 = 0
                  /\ IsRatio(M("overall_ctr") \div 100, Sum("clicks"), Sum("impressions"))
            /\ Sum("impressions") <= 0 => M("overall_ctr") = 0
        /\ response = RaisedAt("aggregate_insights") =>
            \E i \in 1..Len(data) :
                \E key \in {"spend", "purchase_value", "purchases", "clicks", "impressions"} :
                    GetValue(data[i], key, 0).raised

\* revenue was earned on a negative total spend, and overall_roas came out 0;
\* in the same state a positive impression total gave a ctr
C4_NegativeSpendGivesZero ==
    /\ pc = "decide_status"
    /\ DictGet(metrics_overview, "total_spend", 0) < 0
    /\ DictGet(metrics_overview, "total_revenue", 0) > 0
    /\ DictGet(metrics_overview, "overall_roas", -1) = 0
    /\ DictGet(metrics_overview, "total_impressions", 0) > 0
    /\ DictGet(metrics_overview, "overall_ctr", 0) > 0

\* C5 (SpecCoerce): _get_value never raises, whatever is stored under the key:
\* a text has "%" and "," removed and its surrounding whitespace stripped and is
\* parsed as a number; a missing key, None and a text that does not parse give
\* the default; every other stored value gives a float or the default.
C5_NeverRaises ==
    (call.fn = "_get_value" /\ call.done) =>
        LET stored == DictGet(call.row, call.key, None)
        IN  /\ ~call.ret.raised
            /\ stored = None => call.ret.v = call.default
            /\ stored.t = "str" =>
                  LET parsed == ParseFloat(Strip(RemoveChar(RemoveChar(stored.s, "%"), ",")))
                  IN  call.ret.v = IF parsed.ok THEN parsed.v ELSE call.default

\* C6 (SpecFuzzy): for every canonical field name c of STANDARD_COLUMNS,
\* fuzzy_match(c) = c.
C6_CanonicalNamesMapToThemselves ==
    (call.fn = "fuzzy_match" /\ call.done /\ call.column \in StandardNames) =>
        call.ret = [found |-> TRUE, standard |-> call.column]

\* C7 (Spec): when the column-mapping collaborator raises, answers with text
\* that is no JSON, with JSON that is no column-to-field mapping, or with values
\* that are no field names, every column the fuzzy pass left unresolved is
\* mapped to "unknown" and normalization does not fail.
C7_MalformedReplyGivesUnknown ==
    \A k \in 1..Len(llm_calls) :
        LET c == llm_calls[k]
            usable == {Str(n) : n \in StandardNames \cup {"unknown"}}
            malformed ==
                \/ c.reply.kind \in {"raise", "text"}
                \/ /\ c.reply.kind = "json"
                   /\ \/ c.reply.value.j \in {"scalar", "array"}
                      \/ /\ c.reply.value.j = "object"
                         /\ \E m \in 1..Len(c.reply.value.members) :
                               c.reply.value.members[m][2] \notin usable
        IN  (c.fn = "map_columns" /\ malformed) =>
                /\ \A i \in 1..Len(c.columns) :
                      DictGet(column_mapping, c.columns[i], None) = Str("unknown")
                /\ response # RaisedAt("normalize_data")

\* C8 (Spec): the column-mapping collaborator is invoked at most
\* once, only with the columns the fuzzy pass left unresolved, and not at all
\* when every column is resolved, when there is no record, or when the request
\* carries an explicit column mapping.
C8_NoCallWithExplicitMapping ==
    LET asked == {k \in 1..Len(llm_calls) : llm_calls[k].fn = "map_columns"}
        Unresolved(col) == ~fuzzy_match(col).found
        unresolved == SelectSeq(ColumnsOf(request.data), Unresolved)
    IN  /\ Cardinality(asked) <= 1
        /\ \A k \in asked : llm_calls[k].columns = unresolved
        /\ unresolved = <<>> => asked = {}
        /\ request.data = <<>> => asked = {}
        /\ request.column_mapping.given => asked = {}

\* What the code does keep (Spec): at most one call of the column-mapping
\* collaborator, with the columns the fuzzy pass left unresolved, and none when
\* every column is resolved, when there is no record, or when the request
\* carries a column mapping that is not empty.
C8_NoCallWithNonEmptyExplicitMapping ==
    LET asked == {k \in 1..Len(llm_calls) : llm_calls[k].fn = "map_columns"}
        Unresolved(col) == ~fuzzy_match(col).found
        unresolved == SelectSeq(ColumnsOf(request.data), Unresolved)
    IN  /\ Cardinality(asked) <= 1
        /\ \A k \in asked : llm_calls[k].columns = unresolved
        /\ unresolved = <<>> => asked = {}
        /\ request.data = <<>> => asked = {}
        /\ (request.column_mapping.given /\ request.column_mapping.map # <<>>)
              => asked = {}

\* a finished run whose first record had a resolved and two unresolved columns:
\* the collaborator was asked once, about those two
C8_AskedOnceAboutUnresolved ==
    /\ pc = "done"
    /\ Len(request.data) = 2
    /\ ~request.column_mapping.given
    /\ Len(ColumnsOf(request.data)) = 4
    /\ Len(llm_calls) = 2
    /\ llm_calls[1].fn = "map_columns"
    /\ llm_calls[1].columns = <<"Notes", "Tier">>
    /\ llm_calls[2].fn = "summary"

\* C9 (Spec): when the summary call fails the run fails: no report is built,
\* no summary text is put in its place, and the HTTP endpoint answers 500
\* "Analysis failed".
C9_SummaryFailureFailsRun ==
    \A k \in 1..Len(llm_calls) :
        (llm_calls[k].fn = "summary" /\ llm_calls[k].reply.kind = "raise") =>
            /\ pc = "raised"
            /\ response = RaisedAt("generate_summary")
            /\ summary = ""
            /\ http \in {NoAnswer, [status |-> 500, detail |-> "Analysis failed"]}

\* the summary call failed on a run with records, and the endpoint has answered
C9_AnsweredAnalysisFailed ==
    /\ Len(llm_calls) >= 1
    /\ llm_calls[Len(llm_calls)].fn = "summary"
    /\ llm_calls[Len(llm_calls)].reply.kind = "raise"
    /\ Len(normalized_data) >= 1
    /\ http.status = 500

\* C10 as stated (Spec): with no record and no explicit mapping the run
\* completes without error: the column mapping is empty, every account metric
\* is 0, the finding list and the decision list are empty, and the summary is
\* asked for exactly once, with the zeroed metrics.
C10_EmptyInputCompletes ==
    (request.data = <<>> /\ ~request.column_mapping.given) =>
        LET summaries == {k \in 1..Len(llm_calls) : llm_calls[k].fn = "summary"}
            zero == Fmt2(0)
        IN  /\ pc # "raised"
            /\ Len(llm_calls) = Cardinality(summaries)
            /\ column_mapping = <<>>
            /\ all_insights = <<>> /\ ad_insights = <<>>
            /\ pc \in {"generate_summary", "await_summary", "build_response", "done"} =>
                  \A key \in {"total_spend", "total_revenue", "overall_roas",
                              "total_purchases", "total_clicks", "total_impressions",
                              "overall_ctr", "total_ads"} :
                      DictGet(metrics_overview, key, -1) = 0
            /\ pc \in {"await_summary", "build_response", "done"} =>
                  /\ Cardinality(summaries) = 1
                  /\ llm_calls[1].prompt.total_spend = zero
                  /\ llm_calls[1].prompt.total_revenue = zero
                  /\ llm_calls[1].prompt.overall_roas = zero
                  /\ llm_calls[1].prompt.overall_ctr = zero
            /\ pc = "done" => /\ response.kind = "report"
                              /\ response.execution_metadata.column_mapping = <<>>
                              /\ response.insights = <<>>
                              /\ response.ad_insights = <<>>

\* C10, amended (Spec): with no record and no explicit mapping the run reaches
\* the summary call without error: the column mapping is empty, every account
\* metric is 0, the finding list and the decision list are empty, and the
\* summary is asked for exactly once, with the zeroed metrics; the run then
\* completes without error unless that call itself fails.
C10_EmptyInputReachesSummary ==
    (request.data = <<>> /\ ~request.column_mapping.given) =>
        LET summaries == {k \in 1..Len(llm_calls) : llm_calls[k].fn = "summary"}
            zero == Fmt2(0)
            asked == pc \in {"await_summary", "build_response", "done", "raised"}
        IN  /\ pc = "raised" => /\ response = RaisedAt("generate_summary")
                                /\ llm_calls[1].reply.kind = "raise"
            /\ Len(llm_calls) = Cardinality(summaries)
            /\ column_mapping = <<>>
            /\ all_insights = <<>> /\ ad_insights = <<>>
            /\ (asked \/ pc = "generate_summary") =>
                  \A key \in {"total_spend", "total_revenue", "overall_roas",
                              "total_purchases", "total_clicks", "total_impressions",
                              "overall_ctr", "total_ads"} :
                      DictGet(metrics_overview, key, -1) = 0
            /\ asked =>
                  /\ Cardinality(summaries) = 1
                  /\ llm_calls[1].prompt.total_spend = zero
                  /\ llm_calls[1].prompt.total_revenue = zero
                  /\ llm_calls[1].prompt.overall_roas = zero
                  /\ llm_calls[1].prompt.overall_ctr = zero
            /\ pc = "done" => /\ response.kind = "report"
                              /\ response.execution_metadata.column_mapping = <<>>
                              /\ response.insights = <<>>
                              /\ response.ad_insights = <<>>

\* the run on no record finished with a report, after one summary call
C10_EmptyRunDone ==
    /\ request.data = <<>> /\ ~request.column_mapping.given
    /\ pc = "done"
    /\ Len(llm_calls) = 1
    /\ llm_calls[1].fn = "summary"
    /\ response.kind = "report"
    /\ response.execution_metadata.total_ads_analyzed = 0

\* C11 (Spec): a report holds one decision per input record, in input order,
\* the i-th decision carrying the i-th input record's ad id; total_ads_analyzed
\* = number of input records = total_ads of the metrics; insights_generated =
\* length of the report's finding list; column_mapping = the mapping the
\* records were normalized with.
C11_ReportMatchesInput ==
    (pc = "done" /\ response.kind = "report") =>
        LET IsIdColumn(k) == Strip(Lower(k)) \in {"ad id", "ad_id", "adid", "creative id"}
            IdOf(row) == IF \E j \in 1..Len(row) : IsIdColumn(row[j][1])
                         THEN StrOf(row[CHOOSE j \in 1..Len(row) : IsIdColumn(row[j][1])][2])
                         ELSE "unknown"
        IN  /\ Len(response.ad_insights) = Len(request.data)
            /\ \A i \in 1..Len(request.data) :
                  response.ad_insights[i].ad_id = IdOf(request.data[i])
            /\ response.execution_metadata.total_ads_analyzed = Len(request.data)
            /\ DictGet(response.metrics_overview, "total_ads", -1) = Len(request.data)
            /\ response.execution_metadata.insights_generated = Len(response.insights)
            /\ response.execution_metadata.column_mapping = column_mapping

\* What the code does keep (Spec): one decision per normalized record, in
\* order, with the id that record has under the key "ad_id", and the metadata
\* as above.
C11_ReportMatchesNormalized ==
    (pc = "done" /\ response.kind = "report") =>
        /\ Len(response.ad_insights) = Len(request.data)
        /\ Len(normalized_data) = Len(request.data)
        /\ \A i \in 1..Len(normalized_data) :
              response.ad_insights[i].ad_id = AdIdOf(normalized_data[i])
        /\ response.execution_metadata.total_ads_analyzed = Len(request.data)
        /\ DictGet(response.metrics_overview, "total_ads", -1) = Len(request.data)
        /\ response.execution_metadata.insights_generated = Len(response.insights)
        /\ response.execution_metadata.column_mapping = column_mapping

\* C12 (SpecRecord): the canonical record of the specification gives exactly
\* two findings, a high ROAS finding for the 1-2 range and a low conversion
\* finding for the strong ATC-to-purchase rate, no CTR finding, no frequency
\* finding, and the decision test.
C12_CanonicalRecord ==
    (normalized_data = <<CanonicalRecord>> /\ pc = "generate_summary") =>
        /\ Len(roas_insights) = 1
        /\ roas_insights[1].category = "roas"
        /\ roas_insights[1].priority = "high"
        /\ roas_insights[1].condition = <<"ROAS ", 180, " (1-2 range)">>
        /\ ctr_insights = <<>>
        /\ Len(conversion_insights) = 1
        /\ conversion_insights[1].category = "conversion"
        /\ conversion_insights[1].priority = "low"
        /\ conversion_insights[1].condition = <<"Strong ATC→Purchase rate ", 375, "%">>
        /\ frequency_insights = <<>>
        /\ all_insights = <<roas_insights[1], conversion_insights[1]>>
        /\ Len(ad_insights) = 1
        /\ ad_insights[1].status = "test"

\* the canonical record went through the analyzers and the decider
C12_CanonicalRecordDecided ==
    /\ normalized_data = <<CanonicalRecord>>
    /\ pc = "generate_summary"
    /\ Len(all_insights) = 2
    /\ ad_insights[1].metrics.roas = 18000

\* C13 (SpecRecs): the decision's recommendations are at most 5 and are the
\* first entries, in order, of what the matched branch put there (fix: the
\* recommendations of the record's high-priority findings; test: those of all
\* of the record's findings; keep by guard 5: the one stock text) or, when the
\* branch put nothing there, of the recommendations of the first 3 findings
\* matched to the record.
C13_RecommendationsPrefix ==
    (call.fn = "decide_status" /\ call.done /\ ~call.ret.raised) =>
        LET q == call.insights
            id == AdIdOf(call.row)
            Mine(k) == \E a \in 1..Len(q[k].affected_ads) : q[k].affected_ads[a] = id
            High(k) == Mine(k) /\ q[k].priority = "high"
            \* the recommendations of the matching findings k <= n, in order
            matched[n \in 0..Len(q)] ==
                IF n = 0 THEN <<>>
                ELSE IF Mine(n) THEN Append(matched[n - 1], q[n].recommendation)
                ELSE matched[n - 1]
            highs[n \in 0..Len(q)] ==
                IF n = 0 THEN <<>>
                ELSE IF High(n) THEN Append(highs[n - 1], q[n].recommendation)
                ELSE highs[n - 1]
            mine == matched[Len(q)]
            high == highs[Len(q)]
            roas      == GetValue(call.row, "roas", 0).v
            ctr       == GetValue(call.row, "ctr", 0).v
            spend     == GetValue(call.row, "spend", 0).v
            frequency == GetValue(call.row, "frequency", 0).v
            pause == (roas < 10000 /\ spend > 500000) \/ (frequency > 50000 /\ ctr < 5000)
            fix   == ~pause /\ Len(high) >= 2
            test  == ~pause /\ ~fix
                       /\ ((10000 <= roas /\ roas <= 25000) \/ (ctr > 20000 /\ roas < 20000))
            well  == ~pause /\ ~fix /\ ~test /\ roas > 25000 /\ ctr > 15000
            populated == IF fix THEN high
                         ELSE IF test THEN mine
                         ELSE IF well THEN <<"Continue monitoring; performing well">>
                         ELSE <<>>
            full == IF populated # <<>> THEN populated
                    ELSE SubSeq(mine, 1, IF Len(mine) < 3 THEN Len(mine) ELSE 3)
            recs == call.ret.ad.recommendations
        IN  /\ Len(recs) <= 5
            /\ Len(recs) = IF Len(full) < 5 THEN Len(full) ELSE 5
            /\ \A k \in 1..Len(recs) : recs[k] = full[k]

\* a record in the test band matched by six findings, fewer than two of them
\* high: its six recommendations were cut to five
C13_CutAtFive ==
    /\ call.fn = "decide_status" /\ call.done /\ ~call.ret.raised
    /\ call.ret.ad.status = "test"
    /\ Len(InsightsFor(AdIdOf(call.row), call.insights)) = 6
    /\ Len(call.ret.ad.recommendations) = 5
    /\ \E k \in 1..4 : call.ret.ad.recommendations[k] # call.ret.ad.recommendations[k + 1]

\* C14 (SpecFuzzy): a column whose lower-cased, trimmed name is exactly an
\* alias of a canonical field is mapped to that field; substring containment
\* decides only for names that are an exact alias of no field.
C14_ExactAliasFirst ==
    (call.fn = "fuzzy_match" /\ call.done) =>
        LET name == Strip(Lower(call.column))
            exact == {i \in 1..Len(STANDARD_COLUMNS) :
                        \E v \in 1..Len(STANDARD_COLUMNS[i][2]) :
                            STANDARD_COLUMNS[i][2][v] = name}
        IN  exact # {} =>
                /\ call.ret.found
                /\ \E i \in exact : call.ret.standard = STANDARD_COLUMNS[i][1]


\* C15 (Spec): once map_columns_with_llm has returned, whatever the
\* collaborator answered, the mapping has exactly one entry for every input
\* column and none for any other column, the entry of a column that the fuzzy
\* pass resolved is its fuzzy-match result, and every value is a canonical
\* field name or "unknown".
C15_MappingWellFormed ==
    (~MappingSupplied(request) /\ pc \notin {"start", "await_column_mapping"}) =>
        LET columns == ColumnsOf(request.data)
        IN  /\ DictKeys(column_mapping) = SeqElems(columns)
            /\ Len(column_mapping) = Cardinality(SeqElems(columns))
            /\ \A i \in 1..Len(columns) :
                 fuzzy_match(columns[i]).found =>
                     DictGet(column_mapping, columns[i], None)
                         = Str(fuzzy_match(columns[i]).standard)
            /\ \A i \in 1..Len(column_mapping) :
                 /\ column_mapping[i][2].t = "str"
                 /\ column_mapping[i][2].s \in StandardNames \cup {"unknown"}


\* C16 (Spec): once normalize_data has returned, the normalized list has one
\* record per raw record in the same order, every raw (column, value) pair is
\* in the normalized record under the mapped canonical name (under the
\* original name for a column mapped to "unknown" or absent from the
\* mapping), and each normalized record has as many fields as its raw record.
C16_NoFieldLost ==
    (pc \notin {"start", "await_column_mapping"} /\ response # RaisedAt("normalize_data")) =>
        /\ Len(normalized_data) = Len(request.data)
        /\ \A i \in 1..Len(request.data) :
             LET raw == request.data[i]
             IN  /\ Len(normalized_data[i]) = Len(raw)
                 /\ \A f \in 1..Len(raw) :
                      LET std  == DictGet(column_mapping, raw[f][1], Str("unknown"))
                          name == IF std.t = "str" /\ std.s # "unknown"
                                  THEN std.s ELSE raw[f][1]
                      IN  DictGet(normalized_data[i], name, Missing) = raw[f][2]


\* C17 (SpecCTR): for each record CTRAgent.analyze emits the finding of the
\* first matching row and nothing when none matches: ctr_drop > 30 or
\* (ctr_prev_7d > 0 and ctr_7d < 0.7 * ctr_prev_7d) high 'CTR dropped', else
\* ctr < 1.0 and impressions > 1000 high 'Low CTR', else ctr > 3.0 medium
\* 'Strong CTR'; every comparison is strict; findings come in record order.
C17_CtrRows ==
    pc = "analyze_conversion" =>
        LET data == normalized_data
            ctr(i)   == GetValue(data[i], "ctr", 0).v
            last(i)  == GetValue(data[i], "ctr_7d", 0).v
            prev(i)  == GetValue(data[i], "ctr_prev_7d", 0).v
            drop(i)  == GetValue(data[i], "ctr_drop", 0).v
            shown(i) == GetValue(data[i], "impressions", 0).v
            kind(i) == IF drop(i) > 300000 \/ (prev(i) > 0 /\ 10 * last(i) < 7 * prev(i))
                       THEN "dropped"
                       ELSE IF ctr(i) < 10000 /\ shown(i) > 10000000 THEN "low"
                       ELSE IF ctr(i) > 30000 THEN "strong"
                       ELSE "none"
            firing == {i \in 1..Len(data) : kind(i) # "none"}
            nth(k) == CHOOSE i \in firing : Cardinality({j \in firing : j <= i}) = k
        IN  /\ Len(ctr_insights) = Cardinality(firing)
            /\ \A k \in 1..Len(ctr_insights) :
                 /\ ctr_insights[k].category = "ctr"
                 /\ ctr_insights[k].affected_ads = <<AdIdOf(data[nth(k)])>>
                 /\ kind(nth(k)) = "dropped" =>
                       /\ ctr_insights[k].priority = "high"
                       /\ ctr_insights[k].condition[1] = "CTR dropped "
                 /\ kind(nth(k)) = "low" =>
                       /\ ctr_insights[k].priority = "high"
                       /\ ctr_insights[k].condition[1] = "Low CTR "
                 /\ kind(nth(k)) = "strong" =>
                       /\ ctr_insights[k].priority = "medium"
                       /\ ctr_insights[k].condition[1] = "Strong CTR "

\* ctr = 1.0 with 5000 impressions gave nothing, and the record with
\* ctr_drop = 31 and ctr = 3.5 gave the one 'CTR dropped' finding
C17_DropBeforeStrong ==
    /\ pc = "analyze_conversion"
    /\ Len(normalized_data) = 2
    /\ AdIdOf(normalized_data[1]) = "c6"
    /\ AdIdOf(normalized_data[2]) = "c12"
    /\ Len(ctr_insights) = 1
    /\ ctr_insights[1].condition[1] = "CTR dropped "
    /\ ctr_insights[1].affected_ads = <<"c12">>


\* C18 (SpecConversion): for each record ConversionAgent.analyze emits the
\* finding of the first matching row and nothing when none matches:
\* ctr > 1.5 and atc_to_purchase < 20 and add_to_cart > 10 high, else
\* add_to_cart < 5 and ctr > 1.0 high (a missing add_to_cart counts as 0),
\* else atc_to_purchase > 30 low; findings come in record order.
C18_ConversionRows ==
    pc = "analyze_frequency" =>
        LET data == normalized_data
            ctr(i)  == GetValue(data[i], "ctr", 0).v
            atc(i)  == GetValue(data[i], "atc_to_purchase", 0).v
            cart(i) == IF DictHas(data[i], "add_to_cart")
                       THEN GetValue(data[i], "add_to_cart", 0).v ELSE 0
            kind(i) == IF ctr(i) > 15000 /\ atc(i) < 200000 /\ cart(i) > 100000
                       THEN "funnel"
                       ELSE IF cart(i) < 50000 /\ ctr(i) > 10000 THEN "cart"
                       ELSE IF atc(i) > 300000 THEN "strong"
                       ELSE "none"
            firing == {i \in 1..Len(data) : kind(i) # "none"}
            nth(k) == CHOOSE i \in firing : Cardinality({j \in firing : j <= i}) = k
        IN  /\ Len(conversion_insights) = Cardinality(firing)
            /\ \A k \in 1..Len(conversion_insights) :
                 /\ conversion_insights[k].category = "conversion"
                 /\ conversion_insights[k].affected_ads = <<AdIdOf(data[nth(k)])>>
                 /\ kind(nth(k)) = "funnel" =>
                       /\ conversion_insights[k].priority = "high"
                       /\ conversion_insights[k].condition[1] = "CTR "
                 /\ kind(nth(k)) = "cart" =>
                       /\ conversion_insights[k].priority = "high"
                       /\ conversion_insights[k].condition[1] = "Low cart adds ("
                 /\ kind(nth(k)) = "strong" =>
                       /\ conversion_insights[k].priority = "low"
                       /\ conversion_insights[k].condition[1] = "Strong ATC→Purchase rate "

\* add_to_cart = 5 gave nothing, and the record without add_to_cart gave the
\* 'Low cart adds (0)' finding
C18_MissingCartCountsAsZero ==
    /\ pc = "analyze_frequency"
    /\ Len(normalized_data) = 2
    /\ AdIdOf(normalized_data[1]) = "v7"
    /\ AdIdOf(normalized_data[2]) = "v8"
    /\ ~DictHas(normalized_data[2], "add_to_cart")
    /\ Len(conversion_insights) = 1
    /\ conversion_insights[1].priority = "high"
    /\ conversion_insights[1].condition = <<"Low cart adds (", 0, ") despite clicks">>
    /\ conversion_insights[1].affected_ads = <<"v8">>


\* C19 (SpecFrequency): for each record FrequencyAgent.analyze emits the
\* finding of the first matching row and nothing when none matches:
\* frequency > 3.5 and (ctr_drop > 20 or ctr < 1.0) high 'performance
\* decline', else frequency > 5.0 high 'very high frequency'; no finding
\* names a record whose frequency is at most 3.5; findings come in record
\* order.
C19_FrequencyRows ==
    pc = "aggregate_insights" =>
        LET data == normalized_data
            frequency(i) == GetValue(data[i], "frequency", 0).v
            ctr(i)       == GetValue(data[i], "ctr", 0).v
            drop(i)      == GetValue(data[i], "ctr_drop", 0).v
            kind(i) == IF frequency(i) > 35000 /\ (drop(i) > 200000 \/ ctr(i) < 10000)
                       THEN "decline"
                       ELSE IF frequency(i) > 50000 THEN "saturated"
                       ELSE "none"
            firing == {i \in 1..Len(data) : kind(i) # "none"}
            nth(k) == CHOOSE i \in firing : Cardinality({j \in firing : j <= i}) = k
        IN  /\ Len(frequency_insights) = Cardinality(firing)
            /\ \A k \in 1..Len(frequency_insights) :
                 /\ frequency_insights[k].category = "frequency"
                 /\ frequency_insights[k].priority = "high"
                 /\ frequency_insights[k].affected_ads = <<AdIdOf(data[nth(k)])>>
                 /\ kind(nth(k)) = "decline" =>
                       /\ frequency_insights[k].condition[1] = "Frequency "
                       /\ frequency_insights[k].condition[3] = " with performance decline"
                 /\ kind(nth(k)) = "saturated" =>
                       frequency_insights[k].condition[1] = "Very high frequency "
            /\ \A i \in 1..Len(data) :
                 frequency(i) <= 35000 =>
                     \A k \in 1..Len(frequency_insights) :
                         frequency_insights[k].affected_ads # <<AdIdOf(data[i])>>

\* frequency = 3.5 with ctr 0.5 and ctr_drop 25 gave nothing, and
\* frequency = 6 with ctr 0.5 gave the one 'performance decline' finding
C19_DeclineBeforeSaturation ==
    /\ pc = "aggregate_insights"
    /\ Len(normalized_data) = 2
    /\ AdIdOf(normalized_data[1]) = "q1"
    /\ AdIdOf(normalized_data[2]) = "q7"
    /\ Len(frequency_insights) = 1
    /\ frequency_insights[1].condition[3] = " with performance decline"
    /\ frequency_insights[1].affected_ads = <<"q7">>


\* C20 (SpecGraph): each analyzer's list has at most one finding per record:
\* its findings can be matched, in order, to distinct records whose ad_id (as
\* text) is the finding's only affected id; every finding has the category of
\* the analyzer whose list it is in; and the merged list has at most four
\* findings for each record, so at most 4 * number of records in all.
C20_OneFindingPerRecordPerAnalyzer ==
    LET data == normalized_data
        Matched(found, category) ==
            /\ Len(found) <= Len(data)
            /\ \A k \in 1..Len(found) :
                 /\ found[k].category = category
                 /\ Len(found[k].affected_ads) = 1
            /\ \E at \in [1..Len(found) -> 1..Len(data)] :
                 /\ \A j, k \in 1..Len(found) : j < k => at[j] < at[k]
                 /\ \A k \in 1..Len(found) :
                      found[k].affected_ads = <<AdIdOf(data[at[k]])>>
        ids == {AdIdOf(data[i]) : i \in 1..Len(data)}
    IN  /\ Matched(roas_insights, "roas")
        /\ Matched(ctr_insights, "ctr")
        /\ Matched(conversion_insights, "conversion")
        /\ Matched(frequency_insights, "frequency")
        /\ Len(all_insights) <= 4 * Len(data)
        /\ \A k \in 1..Len(all_insights) :
             /\ Len(all_insights[k].affected_ads) = 1
             /\ all_insights[k].affected_ads[1] \in ids
        /\ \A id \in ids :
             Cardinality({k \in 1..Len(all_insights) : all_insights[k].affected_ads = <<id>>})
                 <= 4 * Cardinality({i \in 1..Len(data) : AdIdOf(data[i]) = id})

\* two records that each fire all four analyzers: every analyzer's list has
\* two findings and the merged list has eight, all naming the records' id
C20_FourFindingsEach ==
    /\ pc = "decide_status"
    /\ Len(normalized_data) = 2
    /\ Len(roas_insights) = 2 /\ Len(ctr_insights) = 2
    /\ Len(conversion_insights) = 2 /\ Len(frequency_insights) = 2
    /\ Len(all_insights) = 8
    /\ \A k \in 1..8 : all_insights[k].affected_ads = <<AdIdOf(normalized_data[1])>>

\* the successor of each pipeline step in the order of the graph's edges
C21_Advances ==
    /\ pc = "analyze_roas"       => pc' = "analyze_ctr"
    /\ pc = "analyze_ctr"        => pc' = "analyze_conversion"
    /\ pc = "analyze_conversion" => pc' = "analyze_frequency"
    /\ pc = "analyze_frequency"  => pc' = "aggregate_insights"
    /\ pc = "aggregate_insights" => pc' = "decide_status"
    /\ pc = "decide_status"      => pc' = "generate_summary"
    /\ pc = "generate_summary"   => pc' = "await_summary"
    /\ pc = "await_summary"      => pc' \in {"build_response", "raised"}

\* what each pipeline step reads and what it leaves alone
C21_StepFrame ==
    /\ pc = "analyze_roas" =>
          /\ roas_insights = <<>>
          /\ UNCHANGED <<normalized_data, ctr_insights, conversion_insights,
                         frequency_insights, all_insights, ad_insights>>
    /\ pc = "analyze_ctr" =>
          /\ ctr_insights = <<>>
          /\ UNCHANGED <<normalized_data, roas_insights, conversion_insights,
                         frequency_insights, all_insights, ad_insights>>
    /\ pc = "analyze_conversion" =>
          /\ conversion_insights = <<>>
          /\ UNCHANGED <<normalized_data, roas_insights, ctr_insights,
                         frequency_insights, all_insights, ad_insights>>
    /\ pc = "analyze_frequency" =>
          /\ frequency_insights = <<>>
          /\ UNCHANGED <<normalized_data, roas_insights, ctr_insights,
                         conversion_insights, all_insights, ad_insights>>
    /\ pc = "aggregate_insights" =>
          /\ all_insights = <<>>
          /\ UNCHANGED <<normalized_data, roas_insights, ctr_insights,
                         conversion_insights, frequency_insights, ad_insights>>
    /\ pc = "decide_status" =>
          /\ ad_insights = <<>>
          /\ all_insights = SortByPriority(Concatenated(roas_insights, ctr_insights,
                                               conversion_insights, frequency_insights))
          /\ pc' = "generate_summary" =>
                ad_insights' = DecideAll(normalized_data, all_insights).ads
          /\ UNCHANGED <<normalized_data, roas_insights, ctr_insights,
                         conversion_insights, frequency_insights, all_insights>>
    /\ (Len(llm_calls') > Len(llm_calls) /\ llm_calls'[Len(llm_calls')].fn = "summary") =>
          /\ pc = "generate_summary"
          /\ Len(ad_insights) = Len(normalized_data)
          /\ Cardinality({k \in 1..Len(llm_calls') : llm_calls'[k].fn = "summary"}) = 1

\* C21 (Spec): every run takes the steps analyze_roas, analyze_ctr,
\* analyze_conversion, analyze_frequency, aggregate_insights, decide_status,
\* generate_summary once each in that order and then ends; each analyzer step
\* writes only its own list; decide_status reads the merged, sorted list that
\* aggregate_insights wrote; the summary is asked for only after every
\* decision is there.
C21_PipelineRunsThrough == [][C21_Advances /\ C21_StepFrame]_vars

\* the same of the steps that return: a step that raises ends the run where
\* it stands, with nothing written
C21_PipelineOrderOfReturningSteps ==
    [][(pc' # "raised" => C21_Advances) /\ C21_StepFrame]_vars


\* C22 (SpecPause): after decide_status, every decision with status pause
\* has recommendations and a high-priority finding that names its record's
\* id; when roas < 1.0 and spend > 50 the ROAS analyzer's 'unprofitable'
\* finding for the record is among the findings, and when frequency > 5.0
\* and ctr < 0.5 a high finding of the Frequency analyzer for the record is.
C22_PauseHasFinding ==
    pc = "generate_summary" =>
        \A i \in 1..Len(ad_insights) :
            ad_insights[i].status = "pause" =>
                LET row  == normalized_data[i]
                    id   == AdIdOf(row)
                    roas == GetValue(row, "roas", 0).v
                    spend == GetValue(row, "spend", 0).v
                    frequency == GetValue(row, "frequency", 0).v
                    ctr  == GetValue(row, "ctr", 0).v
                IN  /\ ad_insights[i].recommendations # <<>>
                    /\ \E k \in 1..Len(all_insights) :
                         /\ all_insights[k].priority = "high"
                         /\ id \in SeqElems(all_insights[k].affected_ads)
                    /\ (roas < 10000 /\ spend > 500000) =>
                         \E k \in 1..Len(roas_insights) :
                            /\ roas_insights[k].affected_ads = <<id>>
                            /\ roas_insights[k].priority = "high"
                            /\ roas_insights[k].condition = <<"ROAS ", Fmt2(roas), " (unprofitable)">>
                            /\ \E j \in 1..Len(all_insights) : all_insights[j] = roas_insights[k]
                    /\ (frequency > 50000 /\ ctr < 5000) =>
                         \E k \in 1..Len(frequency_insights) :
                            /\ frequency_insights[k].affected_ads = <<id>>
                            /\ frequency_insights[k].priority = "high"
                            /\ frequency_insights[k].condition[2] = Fmt2(frequency)
                            /\ \E j \in 1..Len(all_insights) : all_insights[j] = frequency_insights[k]

\* one record paused by the fatigue guard and one by the unprofitable guard,
\* each with the recommendation of its own finding first
C22_BothGuardsPaused ==
    /\ pc = "generate_summary"
    /\ Len(ad_insights) = 2
    /\ ad_insights[1].status = "pause"
    /\ ad_insights[1].issues[1][1] = "Severe fatigue: Frequency "
    /\ ad_insights[1].recommendations
         = <<"Ad fatigue detected; cap frequency at 3, expand audience, or rotate creative">>
    /\ ad_insights[2].status = "pause"
    /\ ad_insights[2].issues[1][1] = "Unprofitable: ROAS "
    /\ ad_insights[2].recommendations[1]
         = "Pause immediately or reduce budget by 75%; audit targeting and creative quality"


\* C23 (SpecPause): the decision of a record depends on that record alone:
\* whenever another list of records holds the same record at position i, the
\* graph run on that list gives position i the same status, issues and
\* recommendations as this run did.
C23_DecisionOfRecordAlone ==
    pc = "generate_summary" =>
        \A other \in SeqsUpTo(PauseRows, MaxRows) :
            \A i \in 1..Min(Len(other), Len(normalized_data)) :
                other[i] = normalized_data[i] =>
                    LET there == GraphDecisions(other)[i]
                        here  == ad_insights[i]
                    IN  /\ there.status = here.status
                        /\ there.issues = here.issues
                        /\ there.recommendations = here.recommendations

\* the same for lists in which the record's id (as text, "unknown" when it
\* has none) is the id of no other record
C23_DecisionOfRecordWithOwnId ==
    pc = "generate_summary" =>
        \A other \in SeqsUpTo(PauseRows, MaxRows) :
            \A i \in 1..Min(Len(other), Len(normalized_data)) :
                (/\ other[i] = normalized_data[i]
                 /\ \A j \in 1..Len(other) : j # i => AdIdOf(other[j]) # AdIdOf(other[i])
                 /\ \A j \in 1..Len(normalized_data) :
                       j # i => AdIdOf(normalized_data[j]) # AdIdOf(normalized_data[i])) =>
                    LET there == GraphDecisions(other)[i]
                        here  == ad_insights[i]
                    IN  /\ there.status = here.status
                        /\ there.issues = here.issues
                        /\ there.recommendations = here.recommendations

\* the run's decisions are those of GraphDecisions on its own records
C23_RunIsGraphDecisions ==
    pc = "generate_summary" => ad_insights = GraphDecisions(normalized_data)

====
